---- MODULE Spec2Model ----
(***************************************************************************)
(* A model of symbol_version.py: the version-string heuristics, the        *)
(* version-script parser and serializer, the dependency resolver, the      *)
(* naming engine and the update/new commands.                              *)
(*                                                                         *)
(* Python strings are modelled as sequences of one-character strings, so   *)
(* that regular-expression matching, upper-casing, integer conversion and  *)
(* lexicographic comparison are computed character by character.           *)
(***************************************************************************)
EXTENDS Integers, Sequences, FiniteSets, TLC

VARIABLES
    pc,        \* position of the running command / applied function
    cmd,       \* which command or function this behaviour runs
    inp,       \* input of the function under study (pure-function runs)
    out,       \* its result
    file,      \* update: the lines of the version script given as `file`
    cur_map,   \* update/new: the Map in use: [init, releases]
    parsed,    \* update: the release list as left by Map.read()
    args,      \* the command line arguments in use
    added,     \* update: the list `added` (kept as a set)
    removed,   \* update: the list `removed` (kept as a set)
    latest,    \* update: the result of guess_latest_release()
    r,         \* update/new: the Release under construction
    release_info, \* new: the list release_info
    output,    \* the output file / stdout: Unopened, or the text written
    failure    \* the exception that ended the command, "" if none

vars == <<pc, cmd, inp, out, file, cur_map, parsed, args, added, removed,
          latest, r, release_info, output, failure>>

-----------------------------------------------------------------------------
(* Characters and strings *)

\* The characters in use, in increasing code point order
CharOrder ==
    <<"\n", " ", "#", "*", ".",
      "0", "1", "2", "3", "4", "5", "6", "7", "8", "9", ":", ";",
      "A", "B", "C", "D", "E", "F", "G", "H", "I", "J", "K", "L", "M",
      "N", "O", "P", "Q", "R", "S", "T", "U", "V", "W", "X", "Y", "Z",
      "_",
      "a", "b", "c", "d", "e", "f", "g", "h", "i", "j", "k", "l", "m",
      "n", "o", "p", "q", "r", "s", "t", "u", "v", "w", "x", "y", "z",
      "{", "}">>

Ord(c) == CHOOSE i \in 1..Len(CharOrder) : CharOrder[i] = c

OrdDigit0 == Ord("0")
OrdUpperA == Ord("A")
OrdLowerA == Ord("a")

IsDigit(c) == Ord(c) >= OrdDigit0 /\ Ord(c) <= OrdDigit0 + 9
IsUpper(c) == Ord(c) >= OrdUpperA /\ Ord(c) <= OrdUpperA + 25
IsLower(c) == Ord(c) >= OrdLowerA /\ Ord(c) <= OrdLowerA + 25
IsAlnum(c) == IsDigit(c) \/ IsUpper(c) \/ IsLower(c)
\* \w
IsWord(c) == IsAlnum(c) \/ c = "_"
\* \s
IsSpace(c) == c \in {" ", "\n"}

UpperChar(c) == IF IsLower(c) THEN CharOrder[Ord(c) - OrdLowerA + OrdUpperA] ELSE c
LowerChar(c) == IF IsUpper(c) THEN CharOrder[Ord(c) - OrdUpperA + OrdLowerA] ELSE c

\* str.upper(), str.lower()
StrUpper(s) == [i \in 1..Len(s) |-> UpperChar(s[i])]
StrLower(s) == [i \in 1..Len(s) |-> LowerChar(s[i])]

\* s1 < s2 on Python strings (lexicographic by code point)
RECURSIVE StrLess(_, _)
StrLess(a, b) ==
    IF a = <<>> THEN b # <<>>
    ELSE IF b = <<>> THEN FALSE
    ELSE IF a[1] = b[1] THEN StrLess(Tail(a), Tail(b))
    ELSE Ord(a[1]) < Ord(b[1])

\* s[i:] with a 0-based index i
From(s, i) == SubSeq(s, i + 1, Len(s))
\* s[:i] with a 0-based index i
Upto(s, i) == SubSeq(s, 1, i)

\* The length of the longest prefix of s whose characters all satisfy the
\* class: 1 = \w, 2 = \s, 3 = [0-9], 4 = _, 5 = [a-zA-Z0-9], 6 = [^\n]
InClass(k, c) ==
    CASE k = 1 -> IsWord(c)
      [] k = 2 -> IsSpace(c)
      [] k = 3 -> IsDigit(c)
      [] k = 4 -> c = "_"
      [] k = 5 -> IsAlnum(c)
      [] k = 6 -> c # "\n"

RECURSIVE RunLen(_, _)
RunLen(k, s) ==
    IF s # <<>> /\ InClass(k, s[1]) THEN 1 + RunLen(k, Tail(s)) ELSE 0

\* sequence concatenation of a sequence of strings: "".join(parts)
RECURSIVE Join(_)
Join(parts) == IF parts = <<>> THEN <<>> ELSE parts[1] \o Join(Tail(parts))

\* None, where Python holds None in place of a string
NoneStr == <<"None">>
\* None as a component of a version list
NoneInt == -1
\* None in place of a version list
NoneVer == <<-2>>

\* truth value of a Python string or None
Truthy(s) == s # NoneStr /\ s # <<>>
\* truth value of a Python list or None
TruthyVer(v) == v # NoneVer /\ v # <<>>

\* int(s) for a string of decimal digits
RECURSIVE ToInt(_)
ToInt(s) ==
    IF s = <<>> THEN 0
    ELSE 10 * ToInt(Upto(s, Len(s) - 1)) + (Ord(s[Len(s)]) - OrdDigit0)

\* str(i) for a non-negative integer, and str(None)
RECURSIVE IntStr(_)
IntStr(n) ==
    IF n = NoneInt THEN <<"N", "o", "n", "e">>
    ELSE IF n < 10 THEN <<CharOrder[OrdDigit0 + n]>>
    ELSE IntStr(n \div 10) \o <<CharOrder[OrdDigit0 + (n % 10)]>>

\* "".join(["_" + str(i) for i in version])
RECURSIVE VerSuffix(_)
VerSuffix(version) ==
    IF version = <<>> THEN <<>>
    ELSE <<"_">> \o IntStr(version[1]) \o VerSuffix(Tail(version))

-----------------------------------------------------------------------------
(* Version-string heuristics *)

\* re.findall(r'[a-zA-Z0-9]+', s)
RECURSIVE AlnumRuns(_)
AlnumRuns(s) ==
    IF s = <<>> THEN <<>>
    ELSE LET n == RunLen(5, s) IN
         IF n = 0 THEN AlnumRuns(Tail(s))
         ELSE <<Upto(s, n)>> \o AlnumRuns(From(s, n))

IsNumeric(run) == \A i \in 1..Len(run) : IsDigit(run[i])

\* get_version_from_string: [err, version]; err is "" when it returns
get_version_from_string(version_string) ==
    LET m == AlnumRuns(version_string) IN
    IF m = <<>> THEN [err |-> "Could not get version parts", version |-> <<>>]
    ELSE IF \E i \in 1..Len(m) : ~IsNumeric(m[i])
         THEN [err |-> "ValueError", version |-> <<>>]
         ELSE [err |-> "", version |-> [i \in 1..Len(m) |-> ToInt(m[i])]]

\* re.search(r'_+[0-9]+', s).start(), or -1: the first underscore run that a
\* digit follows
VersionStart(s) ==
    LET hits == {i \in 0..(Len(s) - 1) :
                    LET n == RunLen(4, From(s, i)) IN
                    /\ n > 0
                    /\ i + n < Len(s)
                    /\ IsDigit(s[i + n + 1])}
    IN IF hits = {} THEN -1 ELSE CHOOSE i \in hits : \A j \in hits : i <= j

\* re.search(r'_+$', s).start(), or -1: the start of the trailing underscores
TrailingStart(s) ==
    LET hits == {i \in 0..(Len(s) - 1) : RunLen(4, From(s, i)) = Len(s) - i}
    IN IF hits = {} THEN -1 ELSE CHOOSE i \in hits : \A j \in hits : i <= j

\* get_info_from_release_string, lines 124-133: the list returned for a
\* prefix and a tail, v being get_version_from_string(tail)
InfoOf(release, prefix, tail, v) ==
    IF tail # <<>>
    THEN [err |-> v.err, release |-> release, prefix |-> prefix,
          suffix |-> IF v.err = "" THEN VerSuffix(v.version) ELSE <<>>,
          version |-> v.version]
    ELSE [err |-> "", release |-> release, prefix |-> prefix,
          suffix |-> <<>>,
          version |-> <<NoneInt, NoneInt, NoneInt>>]

\* get_info_from_release_string, lines 109-122: prefix and tail from the
\* two searches, m and m2 being the starts of their matches
InfoAt(release, m, m2) ==
    IF m >= 0
    THEN InfoOf(release, Upto(release, m), From(release, m),
                get_version_from_string(From(release, m)))
    ELSE IF m2 >= 0
    THEN InfoOf(release, Upto(release, m2), <<>>, <<>>)
    ELSE InfoOf(release, release, <<>>, <<>>)

\* get_info_from_release_string: the list [release, prefix, suffix, version]
\* as a record, with err = "" when it returns
get_info_from_release_string(release) ==
    InfoAt(release, VersionStart(release), TrailingStart(release))

\* bump_version: [err, version]; version[1] of a one-element list raises
bump_version(version, abi_break) ==
    IF version = <<>>
    THEN [err |-> "IndexError", version |-> <<>>]
    ELSE IF abi_break
    THEN [err |-> "",
          version |->
            (IF version[1] # NoneInt THEN <<version[1] + 1>> ELSE <<>>)
            \o [i \in 1..(Len(version) - 1) |-> 0]]
    ELSE IF Len(version) < 2
         THEN [err |-> "IndexError", version |-> <<>>]
         ELSE [err |-> "",
               version |->
                 (IF version[1] # NoneInt THEN <<version[1]>> ELSE <<>>)
                 \o (IF version[2] # NoneInt THEN <<version[2] + 1>> ELSE <<>>)
                 \o [i \in 1..(Len(version) - 2) |-> 0]]

-----------------------------------------------------------------------------
(* Data model: a Release is [name, previous, symbols]; symbols is a        *)
(* sequence of <<scope name, sequence of symbol names>>; a Map holds the   *)
(* sequence `releases` and the flag `init`.                                *)

\* Release()
NewRelease == [name |-> <<>>, previous |-> <<>>, symbols |-> <<>>]

\* x in list
InSeq(x, list) == \E i \in 1..Len(list) : list[i] = x

\* list.remove(x): drops the first occurrence
RemoveAt(list, i) == SubSeq(list, 1, i - 1) \o SubSeq(list, i + 1, Len(list))

-----------------------------------------------------------------------------
(* Dependency resolver *)

\* get_dependency answering that the release found has no previous
get_dependency_none(releases, head) == [err |-> "", previous |-> <<>>]

\* get_dependency without its two tests: the previous of the first release
\* found, none when there is no such release
get_dependency_first(releases, head) ==
    [err |-> "",
     previous |->
       IF \E i \in 1..Len(releases) : releases[i].name = head
       THEN releases[CHOOSE i \in 1..Len(releases) :
                        /\ releases[i].name = head
                        /\ \A j \in 1..(i - 1) : releases[j].name # head].previous
       ELSE <<>>]

\* get_dependency: [err, previous]
get_dependency(releases, head) ==
    LET found == SelectSeq(releases, LAMBDA release : release.name = head) IN
    IF found = <<>>
    THEN [err |-> "Release not found", previous |-> <<>>]
    ELSE IF Len(found) > 1
         THEN [err |-> "defined more than 1 release", previous |-> <<>>]
         ELSE [err |-> "", previous |-> found[1].previous]

\* the loop of lines 580-583 without its remove
KeepHeads(deps, i, dep) == deps

\* for i in deps: if i[0] == dep: deps.remove(i)
\* (the iteration goes on by position over the list being shortened)
RECURSIVE RemoveHead(_, _, _)
RemoveHead(deps, i, dep) ==
    IF i > Len(deps) THEN deps
    ELSE IF deps[i][1] = dep
         THEN RemoveHead(RemoveAt(deps, i), i + 1, dep)
         ELSE RemoveHead(deps, i + 1, dep)

\* the circular dependency message without the names of `current`
CircularPathDep(current, dep) == <<dep>>

\* the path named by the circular dependency message
CircularPath(current, dep) == Append(current, dep)

\* the `while dep:` loop of dependencies(): [err, current, solved, deps]
RECURSIVE Walk(_, _, _, _, _)

\* lines 576-585: dep joins the list, and the walk goes on from the
\* previous release g that get_dependency found for it
WalkOn(releases, current, solved, deps, g) ==
    IF g.err # ""
    THEN [err |-> g.err, current |-> current, solved |-> solved,
          deps |-> deps]
    ELSE Walk(releases, current, g.previous, solved, deps)

Walk(releases, current, dep, solved, deps) ==
    IF ~Truthy(dep)
    THEN [err |-> "", current |-> current, solved |-> solved, deps |-> deps]
    ELSE IF InSeq(dep, current)
    THEN [err |-> "Circular dependency detected!",
          current |-> CircularPath(current, dep),
          solved |-> solved, deps |-> deps]
    ELSE WalkOn(releases, Append(current, dep),
                IF InSeq(dep, solved) THEN solved ELSE Append(solved, dep),
                IF InSeq(dep, solved) THEN RemoveHead(deps, 1, dep) ELSE deps,
                get_dependency(releases, dep))

\* the `for release in self.releases:` loop of dependencies()
RECURSIVE DepLoop(_, _, _, _)

\* lines 586-587, w being the outcome of the walk from releases[i]
DepNext(releases, i, w) ==
    IF w.err # ""
    THEN [err |-> w.err, deps |-> <<>>, path |-> w.current]
    ELSE DepLoop(releases, i + 1, Append(w.solved, releases[i].name),
                 Append(w.deps, w.current))

DepLoop(releases, i, solved, deps) ==
    IF i > Len(releases) THEN [err |-> "", deps |-> deps, path |-> <<>>]
    ELSE IF InSeq(releases[i].name, solved)
    THEN DepLoop(releases, i + 1, solved, deps)
    ELSE DepNext(releases, i,
                 Walk(releases, <<releases[i].name>>, releases[i].previous,
                      solved, deps))

\* Map.dependencies: [err, deps, path]; err = "" when it returns deps, and
\* path is the path of the circular dependency message
dependencies(releases) == DepLoop(releases, 1, <<>>, <<>>)

-----------------------------------------------------------------------------
(* Script parser *)

sGlobal == <<"g", "l", "o", "b", "a", "l">>
sLocal  == <<"l", "o", "c", "a", "l">>
sStar   == <<"*">>

\* re.match(r'\s+|\s*#.*$', rest).end(), or 0 when there is no match
\* ($ matches at the end of the string and before a final newline)
SkipLen(rest) ==
    LET ws == RunLen(2, rest) IN
    IF ws > 0 THEN ws
    ELSE IF rest # <<>> /\ rest[1] = "#"
    THEN LET n == 1 + RunLen(6, Tail(rest)) IN
         IF n = Len(rest) \/ (n = Len(rest) - 1 /\ rest[n + 1] = "\n")
         THEN n ELSE 0
    ELSE 0

\* re.match(r'\w+|\*', rest).end(), or 0 when there is no match
IdentOrStarLen(rest) ==
    LET n == RunLen(1, rest) IN
    IF n > 0 THEN n ELSE IF rest # <<>> /\ rest[1] = "*" THEN 1 ELSE 0

\* The parser's local variables at the start of parse()
ParseStart ==
    [state |-> 0, index |-> 0, column |-> 0, last |-> <<0, 0>>,
     releases |-> <<>>, v |-> FALSE, identifier |-> <<>>,
     warnings |-> <<>>,
     err |-> "", line |-> 0, col |-> 0, context |-> <<>>]

\* raise ParserError(filename, context, line, column, message)
ParserError(st, context, line, column, message) ==
    [st EXCEPT !.err = message, !.line = line, !.col = column,
               !.context = context]

\* raise ParserError(self.filename, lines[last[0]], last[0], last[1], msg)
ErrorAtLast(lines, st, message) ==
    ParserError(st, lines[st.last[1] + 1], st.last[1], st.last[2], message)

\* column += n; last = (index, column)
Advance(st, n) ==
    [st EXCEPT !.column = @ + n, !.last = <<st.index, st.column + n>>]

\* r: the release most recently appended to `releases`
LastIdx(st) == Len(st.releases)

\* the identifier is appended twice to the scope
AppendSymbolTwice(rel, identifier) ==
    [rel EXCEPT !.symbols[Len(rel.symbols)] =
                   <<@[1], @[2] \o <<identifier, identifier>>>>]

\* v[1].append(identifier): v is the scope most recently appended to r
AppendSymbol(rel, identifier) ==
    LET k == Len(rel.symbols) IN
    [rel EXCEPT !.symbols[k] = <<@[1], Append(@[2], identifier)>>]

\* a scope of that name is opened only when the release has none yet
OpenScopeOnce(rel, scope) ==
    IF \E k \in 1..Len(rel.symbols) : rel.symbols[k][1] = scope THEN rel
    ELSE [rel EXCEPT !.symbols = Append(@, <<scope, <<>>>>)]

\* r.symbols.append((scope, []))
OpenScope(rel, scope) ==
    [rel EXCEPT !.symbols = Append(@, <<scope, <<>>>>)]

\* One pass through the body of `while column < len(line)`
ParseStep(lines, st) ==
    LET line == lines[st.index + 1]
        rest == From(line, st.column)
        skip == SkipLen(rest)
        w    == RunLen(1, rest)
        c    == rest[1]
    IN
    IF skip > 0 THEN Advance(st, skip)
    ELSE CASE st.state = 0 ->
            IF w = 0
            THEN ErrorAtLast(lines, st, "Invalid Release identifier")
            ELSE LET name == Upto(rest, w)
                     has_duplicate ==
                       \E i \in 1..Len(st.releases) : st.releases[i].name = name
                     st1 == Advance(st, w)
                 IN [st1 EXCEPT
                       !.releases = Append(@, [NewRelease EXCEPT !.name = name]),
                       !.state = 1,
                       !.warnings = IF has_duplicate
                                    THEN Append(@, "Duplicated Release identifier")
                                    ELSE @]
         [] st.state = 1 ->
            IF c # "{"
            THEN ErrorAtLast(lines, st, "Missing '{'")
            ELSE [Advance(st, 1) EXCEPT !.v = FALSE, !.state = 2]
         [] st.state = 2 ->
            IF c = "}"
            THEN [Advance(st, 1) EXCEPT !.state = 4]
            ELSE LET n == IdentOrStarLen(rest) IN
                 IF n = 0
                 THEN ErrorAtLast(lines, st, "Invalid identifier")
                 ELSE [st EXCEPT !.last = <<st.index, 0>>,
                                 !.column = @ + n,
                                 !.identifier = Upto(rest, n),
                                 !.state = 3]
         [] st.state = 3 ->
            IF c = ";"
            THEN IF ~st.v
                 THEN [st EXCEPT
                         !.v = TRUE,
                         !.releases[LastIdx(st)] = OpenScope(@, sGlobal),
                         !.warnings = Append(@, "Missing visibility scope")]
                 ELSE [Advance(st, 1) EXCEPT
                         !.releases[LastIdx(st)] = AppendSymbol(@, st.identifier),
                         !.state = 2]
            ELSE IF c = ":"
            THEN [Advance(st, 1) EXCEPT
                    !.v = TRUE,
                    !.releases[LastIdx(st)] = OpenScope(@, st.identifier),
                    !.state = 2]
            ELSE ParserError(st, line, st.index, st.column,
                             "Missing ';' or ':'")
         [] st.state = 4 ->
            IF c = ";"
            THEN [Advance(st, 1) EXCEPT !.state = 0]
            ELSE IF w = 0
            THEN ErrorAtLast(lines, st, "Invalid identifier")
            ELSE [Advance(st, w) EXCEPT !.identifier = Upto(rest, w),
                                        !.state = 5]
         [] st.state = 5 ->
            IF c # ";"
            THEN ErrorAtLast(lines, st, "Missing ';'")
            ELSE [Advance(st, 1) EXCEPT
                    !.releases[LastIdx(st)].previous = st.identifier,
                    !.state = 0]

\* for index, line in enumerate(lines): column = 0; while column < len(line)
RECURSIVE ParseRun(_, _)
ParseRun(lines, st) ==
    IF st.err # "" \/ st.index >= Len(lines) THEN st
    ELSE IF st.column >= Len(lines[st.index + 1])
    THEN ParseRun(lines, [st EXCEPT !.index = @ + 1, !.column = 0])
    ELSE ParseRun(lines, ParseStep(lines, st))

\* a parser that raises when the lines end in a state other than 0
parse_strict(lines) ==
    IF ParseRun(lines, ParseStart).err = "" /\ ParseRun(lines, ParseStart).state # 0
    THEN [ParseRun(lines, ParseStart) EXCEPT !.err = "Unexpected end of file"]
    ELSE ParseRun(lines, ParseStart)

\* Map.parse(lines): the parser's variables when it returns or raises; it
\* raises when .err # "", and then self.releases is not assigned
parse(lines) == ParseRun(lines, ParseStart)

\* file.readlines() on a text: the lines, each with its newline
RECURSIVE readlines(_)
readlines(text) ==
    IF text = <<>> THEN <<>>
    ELSE LET n == RunLen(6, text) IN
         IF n = Len(text) THEN <<text>>
         ELSE <<Upto(text, n + 1)>> \o readlines(From(text, n + 1))

-----------------------------------------------------------------------------
(* Serializer *)

\* list.sort() on a list of strings
RECURSIVE Insert(_, _)
Insert(sorted, x) ==
    IF sorted = <<>> THEN <<x>>
    ELSE IF StrLess(x, sorted[1]) THEN <<x>> \o sorted
    ELSE <<sorted[1]>> \o Insert(Tail(sorted), x)

RECURSIVE SortStrings(_)
SortStrings(list) ==
    IF list = <<>> THEN <<>>
    ELSE Insert(SortStrings(Upto(list, Len(list) - 1)), list[Len(list)])

Indent4 == <<" ", " ", " ", " ">>

\* the text of one (visibility, symbols) pair in Release.__str__
ScopeStr(scope) ==
    Indent4 \o scope[1] \o <<":", "\n">>
    \o Join([i \in 1..Len(scope[2]) |->
               Indent4 \o Indent4 \o SortStrings(scope[2])[i] \o <<";", "\n">>])

\* Release.__str__ without line 945: the previous release is not written
ReleaseStrNoPrevious(rel) ==
    rel.name \o <<"\n", "{", "\n">>
    \o Join([i \in 1..Len(rel.symbols) |-> ScopeStr(rel.symbols[i])])
    \o <<"}", " ", ";", "\n">>

\* Release.__str__
ReleaseStr(rel) ==
    rel.name \o <<"\n", "{", "\n">>
    \o Join([i \in 1..Len(rel.symbols) |-> ScopeStr(rel.symbols[i])])
    \o <<"}", " ">> \o rel.previous \o <<";", "\n">>

\* Map.__str__
MapStr(releases) ==
    Join([i \in 1..Len(releases) |-> ReleaseStr(releases[i]) \o <<"\n">>])

\* the releases as Release.__str__ leaves them: every symbol list sorted
SortedSymbols(releases) ==
    [i \in 1..Len(releases) |->
       [releases[i] EXCEPT !.symbols =
          [k \in 1..Len(@) |-> <<@[k][1], SortStrings(@[k][2])>>]]]

-----------------------------------------------------------------------------
(* Symbol lists *)

\* the set of the elements of a list: set(list)
ToSet(list) == {list[i] : i \in 1..Len(list)}

\* The least string of a non-empty set: min(set)
MinStr(S) == CHOOSE x \in S : \A y \in S : x = y \/ StrLess(x, y)
\* max(set)
MaxStr(S) == CHOOSE x \in S : \A y \in S : x = y \/ StrLess(y, x)

\* list(set) followed by list.sort(): the elements in increasing order.
\* (Where the code leaves a list(set) unsorted its order is that of the
\* set's iteration; the serializer sorts every symbol list before use, and
\* the model keeps such lists in increasing order.)
RECURSIVE SortedList(_)
SortedList(S) ==
    IF S = {} THEN <<>>
    ELSE <<MinStr(S)>> \o SortedList(S \ {MinStr(S)})

\* only the word characters that start s
LeadingRun(s) == IF RunLen(1, s) = 0 THEN <<>> ELSE <<Upto(s, RunLen(1, s))>>

\* re.split(r'\W+', line) followed by re.match(r'\w+', part) on each part:
\* the maximal runs of word characters of the token
RECURSIVE WordRuns(_)
WordRuns(s) ==
    IF s = <<>> THEN <<>>
    ELSE LET n == RunLen(1, s) IN
         IF n = 0 THEN WordRuns(Tail(s))
         ELSE <<Upto(s, n)>> \o WordRuns(From(s, n))

\* clean_symbols(symbols)
clean_symbols(symbols) ==
    Join([i \in 1..Len(symbols) |-> WordRuns(symbols[i])])

\* all_global_symbols without the test of line 511: every scope counts
all_scopes_symbols(releases) ==
    UNION {UNION {ToSet(releases[i].symbols[k][2]) :
                  k \in 1..Len(releases[i].symbols)} :
           i \in 1..Len(releases)}

\* Map.all_global_symbols(): a set
all_global_symbols(releases) ==
    UNION {UNION {IF StrLower(releases[i].symbols[k][1]) = sGlobal
                  THEN ToSet(releases[i].symbols[k][2]) ELSE {} :
                  k \in 1..Len(releases[i].symbols)} :
           i \in 1..Len(releases)}

\* the loop of lines 954-959 with a `seen` that is never filled: no symbol
\* is a duplicate
NoReleaseDups(symbols) == {}

\* release_dups of Release.duplicates for the symbols of one scope entry:
\* the symbols met when already in `seen`
ReleaseDups(symbols) ==
    {symbols[j] : j \in {j \in 1..Len(symbols) :
                           \E i \in 1..(j - 1) : symbols[i] = symbols[j]}}

\* Release.duplicates(): the list of (scope, set(release_dups)) of the scope
\* entries that have duplicates
Release_duplicates(release) ==
    SelectSeq([k \in 1..Len(release.symbols) |->
                 <<release.symbols[k][1], ReleaseDups(release.symbols[k][2])>>],
              LAMBDA d : d[2] # {})

\* Map.duplicates(): the list of (release.name, rel_dup) of the releases
\* that have duplicates
duplicates(releases) ==
    SelectSeq([i \in 1..Len(releases) |->
                 <<releases[i].name, Release_duplicates(releases[i])>>],
              LAMBDA d : d[2] # <<>>)

\* Map.check(): its warnings are log records only; it fails exactly when
\* dependencies() fails
check(releases) == [err |-> dependencies(releases).err]

-----------------------------------------------------------------------------
(* Naming engine *)

\* latest = [None, None, '_0_0_0', None]
Baseline ==
    [err |-> "", release |-> NoneStr, prefix |-> NoneStr,
     suffix |-> <<"_", "0", "_", "0", "_", "0">>, version |-> NoneVer]

\* the loop of lines 733-736 without its comparison: the last head is kept
LaterLast(latest_, info) == info

\* if info[2] > latest[2]: latest = info
Later(latest_, info) ==
    IF info.err # "" THEN info
    ELSE IF StrLess(latest_.suffix, info.suffix) THEN info ELSE latest_

\* for release in heads: info = get_info_from_release_string(release); ...
\* (an exception of get_info_from_release_string ends the loop)
RECURSIVE LatestLoop(_, _, _)
LatestLoop(deps, i, latest_) ==
    IF i > Len(deps) \/ latest_.err # "" THEN latest_
    ELSE LatestLoop(deps, i + 1,
                    Later(latest_, get_info_from_release_string(deps[i][1])))

\* guess_latest_release, lines 728-738, d being self.dependencies()
LatestOf(d) ==
    IF d.err # "" THEN [Baseline EXCEPT !.err = d.err]
    ELSE LatestLoop(d.deps, 1, Baseline)

\* Map.guess_latest_release(): the list as a record, err = "" on return
guess_latest_release(map) ==
    IF ~map.init THEN [Baseline EXCEPT !.err = "Map not initialized"]
    ELSE LatestOf(dependencies(map.releases))

\* the common prefix of s1 = min(names) and s2 = max(names), as computed by
\* the loop over enumerate(s1)
CommonPrefix(s1, s2) ==
    LET diff == {i \in 0..(Len(s1) - 1) :
                    i >= Len(s2) \/ s1[i + 1] # s2[i + 1]}
        i == IF diff = {} THEN Len(s1) - 1
             ELSE CHOOSE j \in diff : \A k \in diff : j <= k
    IN IF s1[i + 1] # s2[i + 1] THEN Upto(s1, i) ELSE s1

\* re.search(r'_+[0-9]+|_+$', s).start(), or -1
VersionOrTrailingStart(s) ==
    LET a == VersionStart(s)
        b == TrailingStart(s)
    IN IF a < 0 THEN b ELSE IF b < 0 THEN a ELSE IF a < b THEN a ELSE b

\* guess_name, lines 836-839: the prefix of the latest release
PrefixLatest(prev_ver, head) ==
    [err |-> head.err, new_prefix |-> head.prefix, prev_ver |-> prev_ver]

\* guess_name, lines 828-839, common being the common prefix of the names
PrefixCommon(map, prev_ver, common) ==
    IF Truthy(common)
    THEN [err |-> "",
          new_prefix |-> IF VersionOrTrailingStart(common) >= 0
                         THEN Upto(common, VersionOrTrailingStart(common))
                         ELSE common,
          prev_ver |-> prev_ver]
    ELSE PrefixLatest(prev_ver, guess_latest_release(map))

ReleaseNames(map) == {map.releases[i].name : i \in 1..Len(map.releases)}

\* guess_name, lines 808-839
PrefixFrom(map, new_prefix, prev_prefix, prev_ver) ==
    IF Truthy(new_prefix)
    THEN [err |-> "", new_prefix |-> new_prefix, prev_ver |-> prev_ver]
    ELSE IF Truthy(prev_prefix)
    THEN [err |-> "", new_prefix |-> prev_prefix, prev_ver |-> prev_ver]
    ELSE IF map.releases = <<>>
    THEN [err |-> "", new_prefix |-> new_prefix, prev_ver |-> prev_ver]
    ELSE PrefixCommon(map, prev_ver,
                      CommonPrefix(MinStr(ReleaseNames(map)),
                                   MaxStr(ReleaseNames(map))))

\* guess_name, lines 797-806, info being the information got from
\* prev_release
PrefixWith(map, new_prefix, prev_prefix, prev_ver, info) ==
    IF info.err # ""
    THEN [err |-> info.err, new_prefix |-> NoneStr, prev_ver |-> NoneVer]
    ELSE PrefixFrom(map,
                    IF Truthy(info.prefix) /\ ~Truthy(new_prefix)
                    THEN info.prefix ELSE new_prefix,
                    prev_prefix,
                    IF TruthyVer(info.version) /\ ~TruthyVer(prev_ver)
                    THEN info.version ELSE prev_ver)

NoInfo ==
    [err |-> "", release |-> NoneStr, prefix |-> NoneStr, suffix |-> NoneStr,
     version |-> NoneVer]

\* guess_name, lines 793-839: the prefix in use when the early returns were
\* not taken: [err, new_prefix, prev_ver]
GuessPrefix(map, new_prefix, prev_release, prev_prefix, prev_ver) ==
    PrefixWith(map, new_prefix, prev_prefix, prev_ver,
               IF Truthy(prev_release)
               THEN get_info_from_release_string(prev_release)
               ELSE NoInfo)

\* guess_name, lines 862-863, bumped being bump_version(prev_ver, abi_break)
SuffixOf(bumped) ==
    IF bumped.err # "" THEN [err |-> bumped.err, new_suffix |-> NoneStr]
    ELSE [err |-> "", new_suffix |-> VerSuffix(bumped.version)]

\* guess_name, lines 851-863, head being the guessed latest release
SuffixLatest(abi_break, new_suffix, head) ==
    IF head.err # "" THEN [err |-> head.err, new_suffix |-> NoneStr]
    ELSE IF TruthyVer(head.version)
    THEN SuffixOf(bump_version(head.version, abi_break))
    ELSE [err |-> "", new_suffix |-> new_suffix]

\* guess_name, lines 843-863: the suffix: [err, new_suffix]
GuessSuffix(map, abi_break, new_suffix, new_ver, prev_ver) ==
    IF Truthy(new_suffix) THEN [err |-> "", new_suffix |-> new_suffix]
    ELSE IF TruthyVer(new_ver)
    \* "_" + i with i an int (or None)
    THEN [err |-> "TypeError", new_suffix |-> NoneStr]
    ELSE IF TruthyVer(prev_ver)
    THEN SuffixOf(bump_version(prev_ver, abi_break))
    ELSE SuffixLatest(abi_break, new_suffix, guess_latest_release(map))

\* guess_name, lines 865-874
NameOf(new_prefix, s) ==
    IF s.err # "" THEN [err |-> s.err, name |-> NoneStr]
    ELSE IF ~Truthy(new_prefix) \/ ~Truthy(s.new_suffix)
    THEN [err |-> "Insufficient information", name |-> NoneStr]
    ELSE [err |-> "", name |-> StrUpper(new_prefix) \o s.new_suffix]

\* guess_name, lines 843-874, p being the outcome of the prefix part
NameWith(map, abi_break, new_suffix, new_ver, p) ==
    IF p.err # "" THEN [err |-> p.err, name |-> NoneStr]
    ELSE NameOf(p.new_prefix,
                GuessSuffix(map, abi_break, new_suffix, new_ver, p.prev_ver))

\* Map.guess_name: [err, name]; err = "" when it returns name
guess_name(map, abi_break, new_release, new_prefix, new_suffix, new_ver, prev_release, prev_prefix, prev_ver) ==
    IF Truthy(new_prefix) /\ Truthy(new_suffix)
    THEN [err |-> "", name |-> StrUpper(new_prefix) \o new_suffix]
    ELSE IF Truthy(new_prefix) /\ TruthyVer(new_ver)
    THEN [err |-> "", name |-> StrUpper(new_prefix) \o VerSuffix(new_ver)]
    ELSE IF Truthy(new_release)
    THEN [err |-> "", name |-> StrUpper(new_release)]
    ELSE NameWith(map, abi_break, new_suffix, new_ver,
                  GuessPrefix(map, new_prefix, prev_release, prev_prefix,
                              prev_ver))

-----
(* Re-linearization *)

\* self.releases.sort(key=lambda release: release.name): a stable sort
RECURSIVE InsertRelease(_, _)
InsertRelease(sorted, x) ==
    IF sorted = <<>> THEN <<x>>
    ELSE IF StrLess(x.name, sorted[1].name) THEN <<x>> \o sorted
    ELSE <<sorted[1]>> \o InsertRelease(Tail(sorted), x)

RECURSIVE SortReleases(_)
SortReleases(list) ==
    IF list = <<>> THEN <<>>
    ELSE InsertRelease(SortReleases(Upto(list, Len(list) - 1)), list[Len(list)])

\* list.append(x) whatever the index
InsertLast(list, index, x) == Append(list, x)

\* list.insert(index, x) with a 0-based index
InsertAt(list, index, x) ==
    SubSeq(list, 1, index) \o <<x>> \o SubSeq(list, index + 1, Len(list))

\* the `while self.releases:` loop of sort_releases_nice
RECURSIVE NiceLoop(_, _, _, _)
NiceLoop(releases, top_dependency, new_list, index) ==
    IF releases = <<>> THEN new_list
    ELSE LET release == releases[Len(releases)]
             rest == Upto(releases, Len(releases) - 1)
         IN IF InSeq(release.name, top_dependency)
            THEN NiceLoop(rest, top_dependency,
                          InsertAt(new_list, index, release), index + 1)
            ELSE NiceLoop(rest, top_dependency, Append(new_list, release),
                          index)

\* the positions in deps of the lists whose head is top_release
Tops(deps, top_release) == {i \in 1..Len(deps) : deps[i][1] = top_release}

\* next((dependency for dependency in dependencies if ...))
TopDependency(deps, top_release) ==
    deps[CHOOSE i \in Tops(deps, top_release) :
            \A j \in Tops(deps, top_release) : i <= j]

\* sort_releases_nice, lines 886-901, on the sorted list, d being
\* self.dependencies()
NiceWith(sorted, top_release, d) ==
    IF d.err # "" THEN [err |-> d.err, releases |-> sorted]
    ELSE IF Tops(d.deps, top_release) = {}
    THEN [err |-> "StopIteration", releases |-> sorted]
    ELSE [err |-> "",
          releases |-> NiceLoop(sorted, TopDependency(d.deps, top_release),
                                <<>>, 0)]

NiceSorted(sorted, top_release) ==
    NiceWith(sorted, top_release, dependencies(sorted))

\* Map.sort_releases_nice(top_release): [err, releases]
sort_releases_nice(releases, top_release) ==
    NiceSorted(SortReleases(releases), top_release)

-----
(* The update and new commands *)

\* "# This map file was automatically updated\n\n"
UpdateHeader ==
    <<"#", " ", "T", "h", "i", "s", " ", "m", "a", "p", " ", "f", "i", "l",
      "e", " ", "w", "a", "s", " ", "a", "u", "t", "o", "m", "a", "t", "i",
      "c", "a", "l", "l", "y", " ", "u", "p", "d", "a", "t", "e", "d",
      "\n", "\n">>

\* "# This map file was created with symbol_version.py\n\n"
NewHeader ==
    <<"#", " ", "T", "h", "i", "s", " ", "m", "a", "p", " ", "f", "i", "l",
      "e", " ", "w", "a", "s", " ", "c", "r", "e", "a", "t", "e", "d", " ",
      "w", "i", "t", "h", " ", "s", "y", "m", "b", "o", "l", "_", "v", "e",
      "r", "s", "i", "o", "n", ".", "p", "y", "\n", "\n">>

\* Map(): self.init = False, self.releases = []
NewMap == [init |-> FALSE, releases |-> <<>>]

Unopened == [opened |-> FALSE, text |-> <<>>]

\* the arguments before the command has read any of them; an argument is
\* drawn from its set when the command first reads it
NoArgs ==
    [mode |-> "", care |-> FALSE, dry |-> FALSE, input |-> <<>>,
     release |-> NoneStr, name |-> NoneStr, version |-> NoneStr]

\* raise: the command ends with an exception
Raise(message) == pc' = "fatal" /\ failure' = message

\* str(cur_map) raising whatever the releases are
NeverPrintable(releases) == FALSE

\* str(cur_map) raises TypeError when a release's previous is None
Printable(releases) ==
    \A i \in 1..Len(releases) : releases[i].previous # NoneStr

\* with open(args.out, "w") as outfile: outfile.write(header);
\* outfile.write(str(map))  (or the same two writes to stdout)
WriteOut(header) ==
    IF Printable(cur_map.releases)
    THEN /\ output' = [opened |-> TRUE,
                       text |-> header \o MapStr(cur_map.releases)]
         /\ cur_map' = [cur_map EXCEPT !.releases = SortedSymbols(@)]
         /\ pc' = "done"
         /\ UNCHANGED failure
    ELSE /\ output' = [opened |-> TRUE, text |-> header]
         /\ Raise("TypeError")
         /\ UNCHANGED cur_map

\* Map.read, lines 496-498: self.check(); self.init = True
ReadChecked(p, c) ==
    IF c.err # ""
    THEN /\ Raise(c.err)
         /\ cur_map' = [cur_map EXCEPT !.releases = p.releases]
         /\ UNCHANGED parsed
    ELSE /\ cur_map' = [init |-> TRUE, releases |-> p.releases]
         /\ parsed' = p.releases
         /\ pc' = "read"
         /\ UNCHANGED failure

\* ReadParsed with line 480 moved before the loop of parse: a parse that
\* fails leaves the Map without releases
ReadParsedClears(p) ==
    IF p.err # ""
    THEN /\ Raise("ParserError")
         /\ cur_map' = [cur_map EXCEPT !.releases = <<>>]
         /\ UNCHANGED parsed
    ELSE ReadChecked(p, check(p.releases))

\* Map.read, lines 495-498, p being the outcome of self.parse(self.lines)
ReadParsed(p) ==
    IF p.err # ""
    THEN Raise("ParserError") /\ UNCHANGED <<cur_map, parsed>>
    ELSE ReadChecked(p, check(p.releases))

\* update, lines 1050-1051: cur_map = Map(filename=args.file)
U_Read ==
    /\ cmd = "update" /\ pc = "start"
    /\ ReadParsed(parse(file))
    /\ UNCHANGED <<cmd, inp, out, file, args, added, removed, latest, r,
                   release_info, output>>

\* the lists added and removed of update, lines 1075-1116
DiffAdded(mode, new_symbols, all_symbols) ==
    CASE mode = "symbols" -> ToSet(new_symbols) \ all_symbols
      [] mode = "add"     -> ToSet(new_symbols)
      [] mode = "remove"  -> {}

\* DiffRemoved without line 1086: Replace mode never removes a symbol
DiffRemovedNever(mode, new_symbols, all_symbols) ==
    CASE mode = "symbols" -> {}
      [] mode = "add"     -> {}
      [] mode = "remove"  -> ToSet(new_symbols) \cap all_symbols

DiffRemoved(mode, new_symbols, all_symbols) ==
    CASE mode = "symbols" -> all_symbols \ ToSet(new_symbols)
      [] mode = "add"     -> {}
      [] mode = "remove"  -> ToSet(new_symbols) \cap all_symbols

-----------------------------------------------------------------------------
(* The inputs of the commands *)

\* the largest number of releases in a version script given to update
MaxReleases == 2

nL10  == <<"L", "_", "1", "_", "0">>
nL11  == <<"L", "_", "1", "_", "1">>
nL000 == <<"L", "_", "0", "_", "0", "_", "0">>
nL19  == <<"L", "_", "1", "_", "9">>
nL110 == <<"L", "_", "1", "_", "1", "0">>

RelNames == {nL10, nL11, nL000}

sGlobalCap == <<"G", "l", "o", "b", "a", "l">>
sA == <<"a">>
sB == <<"b">>
sC == <<"c">>

SymChoices ==
    { << <<sGlobal, <<sA>>>> >>,
      << <<sGlobalCap, <<sB, sStar>>>>, <<sLocal, <<sC>>>> >> }

PrevChoices == {<<>>, nL10, nL11}

ReleaseChoices ==
    [name : RelNames, previous : PrevChoices, symbols : SymChoices]

\* the Maps of at most n releases
Maps(n) == UNION {[1..k -> ReleaseChoices] : k \in 0..n}

\* three Maps more: the wildcard in `global` and in `local`, a release
\* whose version is 0.0.0 as the previous one, and two releases without
\* previous whose versions are 1.9 and 1.10
OtherMaps ==
    { << [name |-> nL10, previous |-> <<>>,
          symbols |-> << <<sGlobal, <<sB, sStar>>>>, <<sLocal, <<sC>>>> >>],
         [name |-> nL11, previous |-> nL10,
          symbols |-> << <<sGlobal, <<sA>>>>, <<sLocal, <<sStar>>>> >>] >>,
      << [name |-> nL000, previous |-> <<>>,
          symbols |-> << <<sGlobal, <<sA>>>>, <<sLocal, <<sStar>>>> >>],
         [name |-> nL10, previous |-> nL000,
          symbols |-> << <<sGlobalCap, <<sB>>>>, <<sLocal, <<sStar>>>> >>] >>,
      << [name |-> nL19, previous |-> <<>>,
          symbols |-> << <<sGlobal, <<sA>>>>, <<sLocal, <<sStar>>>> >>],
         [name |-> nL110, previous |-> <<>>,
          symbols |-> << <<sGlobal, <<sB>>>> >>] >> }

\* version scripts that do not follow the serializer's layout: a release
\* without visibility scope and with a comment, and three malformed ones
OtherFiles ==
    { << <<"L", "_", "1", "_", "0", "{", "c", ";", "a", ";", " ", "#", "x", "\n">>,
         <<"}", ";", "\n">> >>,
      << <<"L", "_", "1", "_", "0", "\n">>, <<"}", "\n">> >>,
      << <<"L", "_", "1", "_", "0", " ", "{", " ", "a", "\n">>, <<"}", ";", "\n">> >>,
      << <<"L", "_", "1", "_", "0", "{", "}", " ", "*", ";", "\n">> >> }

\* the version scripts given to update
Files ==
    {readlines(MapStr(m)) : m \in Maps(MaxReleases) \cup OtherMaps}
    \cup OtherFiles

\* the whitespace-delimited tokens read from the symbol input
InputChoices ==
    { <<>>, <<sA>>, <<sA, <<"b", ";">>>>, <<sA, sB, sC>> }

Modes == {"symbols", "add", "remove"}

\* the arguments of new: --release, or --name and --version, or neither
NewArgChoices ==
    {[release |-> x, name |-> NoneStr, version |-> NoneStr] :
        x \in {nL10, <<"l", "x">>, <<"l", "_", "1", "_", "x">>}}
    \cup
    {[release |-> NoneStr, name |-> x, version |-> y] :
        x \in {<<"l">>, NoneStr},
        y \in {<<"1", ".", "0">>, <<"1", ".", "x">>, <<".">>, NoneStr}}

-----------------------------------------------------------------------------
(* update *)

\* update, lines 1115-1138, a and d being the sets added and removed and l
\* the outcome of guess_latest_release()
DiffWith(a, d, l) ==
    /\ added' = SortedList(a)
    /\ removed' = SortedList(d)
    /\ IF l.err # ""
       THEN Raise(l.err) /\ UNCHANGED latest
       ELSE /\ latest' = l
            /\ pc' = IF a = {} /\ d = {} THEN "done" ELSE "diffed"
            /\ UNCHANGED failure

\* update, lines 1053-1138: the symbol input is read and compared
U_Diff ==
    /\ cmd = "update" /\ pc = "read"
    /\ \E mode \in Modes, tokens \in InputChoices :
         /\ args' = [args EXCEPT !.mode = mode, !.input = tokens]
         /\ DiffWith(DiffAdded(mode, clean_symbols(tokens),
                               all_global_symbols(cur_map.releases)),
                     DiffRemoved(mode, clean_symbols(tokens),
                                 all_global_symbols(cur_map.releases)),
                     guess_latest_release(cur_map))
    /\ UNCHANGED <<cmd, inp, out, file, cur_map, parsed, r, release_info,
                   output>>

\* AddedRelease without line 1147: the added symbols never reach the release
AddedReleaseEmpty(name) == [NewRelease EXCEPT !.name = name]

\* update, lines 1141-1147: the release r of an update that adds symbols
AddedRelease(name) ==
    [NewRelease EXCEPT !.name = name, !.symbols = << <<sGlobal, added>> >>]

\* update, lines 1143-1154, g being the outcome of guess_name()
AddNamed(g) ==
    IF g.err # ""
    THEN Raise(g.err) /\ UNCHANGED <<r, cur_map>>
    ELSE IF removed = <<>>
    THEN /\ r' = [AddedRelease(g.name) EXCEPT !.previous = latest.release]
         /\ cur_map' = [cur_map EXCEPT !.releases = Append(@, r')]
         /\ pc' = "mutated"
         /\ UNCHANGED failure
    ELSE /\ r' = AddedRelease(g.name)
         /\ pc' = "named"
         /\ UNCHANGED <<cur_map, failure>>

\* update, lines 1140-1154: the new release of an update that adds symbols
U_Add ==
    /\ cmd = "update" /\ pc = "diffed" /\ added # <<>>
    /\ AddNamed(guess_name(cur_map, FALSE, NoneStr, NoneStr, NoneStr, NoneVer,
                           NoneStr, NoneStr, NoneVer))
    /\ UNCHANGED <<cmd, inp, out, file, parsed, args, added, removed, latest,
                   release_info, output>>

\* MergedGlobal without lines 1183-1189: the wildcard stays in global
MergedGlobalKeepStar(all_symbols, added_, removed_) ==
    (all_symbols \cup ToSet(added_)) \ ToSet(removed_)

\* the symbols of the single release of a rebuilt Map, lines 1174-1189
MergedGlobal(all_symbols, added_, removed_) ==
    ((all_symbols \cup ToSet(added_)) \ ToSet(removed_)) \ {sStar}

\* update, lines 1167-1194: the single release of the rebuilt Map
MergedRelease(name, all_symbols) ==
    [name |-> name, previous |-> <<>>,
     symbols |-> << <<sGlobal,
                      SortedList(MergedGlobal(all_symbols, added, removed))>>,
                    <<sLocal, <<sStar>>>> >>]

\* update, lines 1170-1200, g being the outcome of guess_name(abi_break=True)
BreakNamed(g) ==
    IF g.err # ""
    THEN Raise(g.err) /\ UNCHANGED <<r, cur_map>>
    ELSE /\ r' = MergedRelease(g.name, all_global_symbols(cur_map.releases))
         /\ cur_map' = [NewMap EXCEPT !.releases = <<r'>>]
         /\ pc' = "mutated"
         /\ UNCHANGED failure

\* the guard of lines 1157-1160 ignoring --care
AbiBreakNeverFatal(care) == FALSE

\* the guard of lines 1157-1160: the run fails when --care was given
AbiBreakIsFatal(care) == care

\* update, lines 1156-1200: an update that removes symbols
U_Break ==
    /\ cmd = "update"
    /\ removed # <<>>
    /\ pc = "named" \/ (pc = "diffed" /\ added = <<>>)
    /\ \E care \in BOOLEAN :
         /\ args' = [args EXCEPT !.care = care]
         /\ IF AbiBreakIsFatal(care)
            THEN Raise("ABI break detected") /\ UNCHANGED <<r, cur_map>>
            ELSE BreakNamed(guess_name(cur_map, TRUE, NoneStr, NoneStr,
                                       NoneStr, NoneVer, NoneStr, NoneStr,
                                       NoneVer))
    /\ UNCHANGED <<cmd, inp, out, file, parsed, added, removed, latest,
                   release_info, output>>

\* the outcome c of check() decides whether the command goes on
CheckWith(c) ==
    IF c.err # "" THEN Raise(c.err)
    ELSE pc' = "checked" /\ UNCHANGED failure

\* cur_map.check() after the change
CheckStep ==
    /\ pc = "mutated"
    /\ CheckWith(check(cur_map.releases))
    /\ UNCHANGED <<cmd, inp, out, file, cur_map, parsed, args, added, removed,
                   latest, r, release_info, output>>

\* the outcome s of sort_releases_nice: the list is sorted in either case
SortWith(s) ==
    /\ cur_map' = [cur_map EXCEPT !.releases = s.releases]
    /\ IF s.err # "" THEN Raise(s.err)
       ELSE pc' = "sorted" /\ UNCHANGED failure

\* cur_map.sort_releases_nice(r.name)
SortStep ==
    /\ pc = "checked"
    /\ SortWith(sort_releases_nice(cur_map.releases, r.name))
    /\ UNCHANGED <<cmd, inp, out, file, parsed, args, added, removed, latest,
                   r, release_info, output>>

\* the end of the command: a dry run returns, any other run writes
WriteStep(header) ==
    /\ pc = "sorted"
    /\ \E dry \in BOOLEAN :
         /\ args' = [args EXCEPT !.dry = dry]
         /\ IF dry
            THEN pc' = "done" /\ UNCHANGED <<cur_map, output, failure>>
            ELSE WriteOut(header)
    /\ UNCHANGED <<cmd, inp, out, file, parsed, added, removed, latest, r,
                   release_info>>

\* update, line 1203
U_Check == cmd = "update" /\ CheckStep
\* update, line 1206
U_Sort == cmd = "update" /\ SortStep
\* update, lines 1208-1220
U_Write == cmd = "update" /\ WriteStep(UpdateHeader)

-----------------------------------------------------------------------------
(* new *)

\* new, lines 1258-1262: release_info = [None, args.name, None, version]
VersionInfo(name, v) ==
    [err |-> v.err, release |-> NoneStr, prefix |-> name, suffix |-> NoneStr,
     version |-> v.version]

\* new, lines 1255-1262: release_info is info unless getting it raised
StartInfo(info) ==
    IF info.err # ""
    THEN Raise(info.err) /\ UNCHANGED release_info
    ELSE /\ release_info' = info
         /\ pc' = "info"
         /\ UNCHANGED failure

\* new, lines 1254-1272: release_info from the arguments
N_Start ==
    /\ cmd = "new" /\ pc = "start"
    /\ \E a \in NewArgChoices :
         /\ args' = [args EXCEPT !.release = a.release, !.name = a.name,
                                 !.version = a.version]
         /\ IF Truthy(a.release)
            THEN StartInfo(get_info_from_release_string(a.release))
            ELSE IF Truthy(a.name) /\ Truthy(a.version)
            THEN StartInfo(VersionInfo(a.name,
                                       get_version_from_string(a.version)))
            ELSE /\ Raise("It is necessary to provide either release name or name and version")
                 /\ UNCHANGED release_info
    /\ UNCHANGED <<cmd, inp, out, file, cur_map, parsed, added, removed,
                   latest, r, output>>

\* FirstRelease without lines 1310-1311: no local scope is added
FirstReleaseNoLocal(name, new_symbols) ==
    [name |-> StrUpper(name), previous |-> <<>>,
     symbols |-> << <<sGlobal, new_symbols>> >>]

\* new, lines 1294-1314: the single release of the new Map
FirstRelease(name, new_symbols) ==
    [name |-> StrUpper(name), previous |-> <<>>,
     symbols |-> << <<sGlobal, new_symbols>>, <<sLocal, <<sStar>>>> >>]

\* new, lines 1297-1314, g being the outcome of guess_name
SymbolsNamed(new_symbols, g) ==
    IF g.err # ""
    THEN Raise(g.err) /\ UNCHANGED <<r, cur_map>>
    ELSE /\ r' = FirstRelease(g.name, new_symbols)
         /\ cur_map' = [NewMap EXCEPT !.releases = <<r'>>]
         /\ pc' = "mutated"
         /\ UNCHANGED failure

\* new, lines 1277-1314 and 1337-1339: the symbols are read and the Map built
N_Symbols ==
    /\ cmd = "new" /\ pc = "info"
    /\ \E tokens \in InputChoices :
         /\ args' = [args EXCEPT !.input = tokens]
         /\ IF clean_symbols(tokens) = <<>>
            THEN pc' = "done" /\ UNCHANGED <<r, cur_map, failure>>
            ELSE SymbolsNamed(clean_symbols(tokens),
                              guess_name(NewMap, FALSE, release_info.release,
                                         release_info.prefix, NoneStr,
                                         release_info.version, NoneStr,
                                         NoneStr, NoneVer))
    /\ UNCHANGED <<cmd, inp, out, file, parsed, added, removed, latest,
                   release_info, output>>

\* new, line 1317
N_Check == cmd = "new" /\ CheckStep
\* new, line 1320
N_Sort == cmd = "new" /\ SortStep
\* new, lines 1322-1336
N_Write == cmd = "new" /\ WriteStep(NewHeader)

-----------------------------------------------------------------------------
(* The commands as a state machine *)

Init ==
    /\ pc = "start"
    /\ cmd \in {"update", "new"}
    /\ file \in IF cmd = "update" THEN Files ELSE {<<>>}
    /\ inp = <<>>
    /\ out = <<>>
    /\ cur_map = NewMap
    /\ parsed = <<>>
    /\ args = NoArgs
    /\ added = <<>>
    /\ removed = <<>>
    /\ latest = NoInfo
    /\ r = NewRelease
    /\ release_info = NoInfo
    /\ output = Unopened
    /\ failure = ""

Next ==
    \/ U_Read
    \/ U_Diff
    \/ U_Add
    \/ U_Break
    \/ U_Check
    \/ U_Sort
    \/ U_Write
    \/ N_Start
    \/ N_Symbols
    \/ N_Check
    \/ N_Sort
    \/ N_Write

Spec == Init /\ [][Next]_vars


-----------------------------------------------------------------------------
(* Properties of update and new *)

\* a release as the properties compare it: its name, its previous and,
\* scope by scope, the set of its symbols
Shape(release) ==
    [name |-> release.name, previous |-> release.previous,
     symbols |-> [k \in 1..Len(release.symbols) |->
                    <<release.symbols[k][1], ToSet(release.symbols[k][2])>>]]

Shapes(releases) == {Shape(releases[i]) : i \in 1..Len(releases)}

\* how many releases of the list have the shape s
Count(releases, s) ==
    Cardinality({i \in 1..Len(releases) : Shape(releases[i]) = s})

\* the symbols of the scopes whose name satisfies Named
ScopeSymbols(releases, Named(_)) ==
    UNION {UNION {IF Named(releases[i].symbols[k][1])
                  THEN ToSet(releases[i].symbols[k][2]) ELSE {} :
                  k \in 1..Len(releases[i].symbols)} :
           i \in 1..Len(releases)}

IsGlobal(scope) == scope = sGlobal
IsGlobalAnyCase(scope) == StrLower(scope) = sGlobal

\* an update that only adds symbols and got a name for its release
Additive ==
    /\ cmd = "update" /\ added # <<>> /\ removed = <<>>
    /\ r.name # <<>>

\* C1: an update that only adds symbols appends exactly one release to the
\* Map it read: the release holds the added symbols in one global scope, its
\* previous is the latest release, which is a release of the Map, and every
\* release read keeps its name, previous and symbols
C1_AdditiveUpdate ==
    Additive =>
      /\ Len(cur_map.releases) = Len(parsed) + 1
      /\ pc = "mutated" => cur_map.releases = Append(parsed, r)
      /\ \A s \in Shapes(cur_map.releases) \cup Shapes(parsed) \cup {Shape(r)} :
            Count(cur_map.releases, s)
              = Count(parsed, s) + (IF s = Shape(r) THEN 1 ELSE 0)
      /\ r.symbols = << <<sGlobal, added>> >>
      /\ r.previous = latest.release
      /\ \E i \in 1..Len(parsed) : parsed[i].name = r.previous

C1_Witness ==
    /\ Additive /\ pc = "done" /\ output.opened
    /\ Len(parsed) > 1

\* an update that removes symbols, without --care, and rebuilt the Map
Breaking ==
    /\ cmd = "update" /\ removed # <<>> /\ ~args.care
    /\ pc \in {"mutated", "checked", "sorted", "done"}

\* C2: an update that removes symbols without --care leaves a Map of one
\* release: previous empty, global = (all global symbols + added) - removed
\* without the wildcard, local = {*}
C2_BreakingUpdate ==
    Breaking =>
      /\ Len(cur_map.releases) = 1
      /\ cur_map.releases[1].previous = <<>>
      /\ Len(cur_map.releases[1].symbols) = 2
      /\ cur_map.releases[1].symbols[1][1] = sGlobal
      /\ ToSet(cur_map.releases[1].symbols[1][2])
           = ((ScopeSymbols(parsed, IsGlobalAnyCase) \cup ToSet(added))
                \ ToSet(removed)) \ {sStar}
      /\ Len(cur_map.releases[1].symbols[1][2])
           = Cardinality(ToSet(cur_map.releases[1].symbols[1][2]))
      /\ cur_map.releases[1].symbols[2] = <<sLocal, <<sStar>>>>

C2_Witness ==
    /\ Breaking /\ pc = "done" /\ output.opened
    /\ Len(parsed) > 1
    /\ sStar \in ScopeSymbols(parsed, IsGlobalAnyCase)
    /\ sStar \notin ToSet(removed)

\* C3: with --care, an update that would remove symbols is fatal before any
\* change: the Map holds the releases that were parsed and no output exists
C3_CareIsFatal ==
    (cmd = "update" /\ args.care /\ removed # <<>>) =>
      /\ pc = "fatal" /\ failure = "ABI break detected"
      /\ cur_map.init /\ cur_map.releases = parsed
      /\ output = Unopened

C3_Witness ==
    /\ cmd = "update" /\ args.care /\ removed # <<>> /\ pc = "fatal"
    /\ added # <<>> /\ Len(parsed) > 1

\* C4: the output is opened only by the last step of a run that succeeded:
\* a run of update or new that is fatal has opened and written nothing
C4_FatalWritesNothing ==
    /\ pc = "fatal" => output = Unopened
    /\ output # Unopened => pc = "done" /\ failure = ""

\* a run that fails in the check made after the Map was changed
C4_Witness ==
    /\ pc = "fatal" /\ failure = "defined more than 1 release"
    /\ Additive /\ Len(cur_map.releases) = Len(parsed) + 1
    /\ output = Unopened

\* the symbols given to an update, cleaned
NewSymbols == ToSet(clean_symbols(args.input))

\* C5: in Replace mode added = new - G and removed = G - new, where G holds
\* the symbols of the scopes whose name, in lower case, is `global`
C5_ReplaceDiff ==
    (cmd = "update" /\ args.mode = "symbols") =>
      /\ ToSet(added) = NewSymbols \ ScopeSymbols(parsed, IsGlobalAnyCase)
      /\ ToSet(removed) = ScopeSymbols(parsed, IsGlobalAnyCase) \ NewSymbols

\* C5 as stated: G holds the symbols of the scopes named `global`
C5_ReplaceDiffNamedGlobal ==
    (cmd = "update" /\ args.mode = "symbols") =>
      /\ ToSet(added) = NewSymbols \ ScopeSymbols(parsed, IsGlobal)
      /\ ToSet(removed) = ScopeSymbols(parsed, IsGlobal) \ NewSymbols

\* a Replace update of a Map with a scope `Global` and a scope `local`
C5_Witness ==
    /\ cmd = "update" /\ args.mode = "symbols" /\ pc = "diffed"
    /\ ScopeSymbols(parsed, IsGlobalAnyCase) # ScopeSymbols(parsed, IsGlobal)
    /\ added # <<>> /\ removed # <<>>

\* a Replace update that changed the Map and went on to its end
Replaced ==
    /\ cmd = "update" /\ args.mode = "symbols" /\ pc = "done"
    /\ added # <<>> \/ removed # <<>>

\* C26: after a Replace update that completes with a change, the symbols of
\* the scopes of the resulting Map whose name, in lower case, is `global` are
\* exactly the new symbols supplied
C26_ReplaceResult ==
    Replaced => ScopeSymbols(cur_map.releases, IsGlobalAnyCase) = NewSymbols

\* C26 as stated: the symbols of the scopes named `global` of the resulting
\* Map are exactly the new symbols supplied
C26_ReplaceResultNamedGlobal ==
    Replaced => ScopeSymbols(cur_map.releases, IsGlobal) = NewSymbols

\* a Replace update that only added symbols to a Map with a scope `Global`
C26_Witness ==
    /\ Replaced /\ removed = <<>>
    /\ ScopeSymbols(parsed, IsGlobalAnyCase) # ScopeSymbols(parsed, IsGlobal)
    /\ Len(cur_map.releases) = Len(parsed) + 1

\* a Replace update that removed symbols and rebuilt the Map
C26_WitnessBreaking ==
    /\ Replaced /\ removed # <<>> /\ added # <<>>
    /\ Len(parsed) = 2 /\ Len(cur_map.releases) = 1

\* the names of the releases read are pairwise distinct
ReadUnique ==
    \A i, j \in 1..Len(parsed) : parsed[i].name = parsed[j].name => i = j

\* an update that only added symbols went on to its end
AddedDone == Additive /\ pc = "done"

\* C27: when an additive update of a Map with pairwise distinct release
\* names completes, the name guessed for the new release is the name of no
\* release read
C27_NameUnique ==
    (AddedDone /\ ReadUnique) =>
      \A i \in 1..Len(parsed) : parsed[i].name # r.name

\* an additive update of a Map of two distinct names has completed and the
\* new release bears the name of a release read
C27_Witness ==
    /\ AddedDone /\ ReadUnique /\ Len(parsed) = 2
    /\ \E i \in 1..Len(parsed) : parsed[i].name = r.name


-----------------------------------------------------------------------------
(* dependencies() on the Maps of at most MaxDeps releases *)

MaxDeps == 3

DepNames == {<<"A">>, <<"B">>, <<"C">>}

DepReleases ==
    {[NewRelease EXCEPT !.name = n, !.previous = p] :
        n \in DepNames, p \in DepNames \cup {<<>>}}

\* the variables of update and new, which the other commands leave alone
Untouched ==
    /\ file = <<>> /\ cur_map = NewMap /\ parsed = <<>> /\ args = NoArgs
    /\ added = <<>> /\ removed = <<>> /\ latest = NoInfo /\ r = NewRelease
    /\ release_info = NoInfo /\ output = Unopened

InitDeps ==
    /\ cmd = "dependencies" /\ pc = "start"
    /\ inp \in UNION {[1..k -> DepReleases] : k \in 0..MaxDeps}
    /\ out = <<>> /\ failure = ""
    /\ Untouched

\* the outcome o of the call ends the command
Return(o) ==
    /\ out' = o
    /\ failure' = o.err
    /\ pc' = IF o.err # "" THEN "fatal" ELSE "done"

\* Map.dependencies() on a Map whose releases are inp
D_Resolve ==
    /\ cmd = "dependencies" /\ pc = "start"
    /\ Return(dependencies(inp))
    /\ UNCHANGED <<cmd, inp, file, cur_map, parsed, args, added, removed,
                   latest, r, release_info, output>>

SpecDeps == InitDeps /\ [][D_Resolve]_vars

Names(releases) == {releases[i].name : i \in 1..Len(releases)}

UniqueNames(releases) ==
    \A i, j \in 1..Len(releases) :
        releases[i].name = releases[j].name => i = j

Resolvable(releases) ==
    \A i \in 1..Len(releases) :
        releases[i].previous = <<>> \/ releases[i].previous \in Names(releases)

\* the names that the releases named n give as their previous
Prev(releases, n) ==
    {releases[i].previous :
        i \in {j \in 1..Len(releases) :
                 releases[j].name = n /\ releases[j].previous # <<>>}}

\* the names reached from the names of S in 1 to k steps of `previous`
RECURSIVE After(_, _, _)

AfterFrom(releases, T, k) == T \cup After(releases, T, k - 1)

After(releases, S, k) ==
    IF k = 0 THEN {}
    ELSE AfterFrom(releases, UNION {Prev(releases, n) : n \in S}, k)

OnCycle(releases, n) == n \in After(releases, {n}, Len(releases))

HasCycle(releases) == \E n \in Names(releases) : OnCycle(releases, n)

\* the names of the cycles through n
CycleOf(releases, n) ==
    {m \in After(releases, {n}, Len(releases)) :
        n \in After(releases, {m}, Len(releases))}

\* chain names releases without repetition, each one the previous of the
\* one before it, and the last one has no previous
IsPath(releases, chain) ==
    /\ Len(chain) >= 1
    /\ \A k \in 1..Len(chain) : chain[k] \in Names(releases)
    /\ \A k, l \in 1..Len(chain) : chain[k] = chain[l] => k = l
    /\ \A k \in 1..(Len(chain) - 1) : Prev(releases, chain[k]) = {chain[k + 1]}
    /\ Prev(releases, chain[Len(chain)]) = {}

Resolved == cmd = "dependencies" /\ pc # "start"

\* C6: on a Map with unique names, resolvable previous links and no cycle,
\* dependencies() returns, and each chain it returns is a path of releases
\* without repetition that follows previous and ends where previous is empty
C6_AcyclicChains ==
    (Resolved /\ UniqueNames(inp) /\ Resolvable(inp) /\ ~HasCycle(inp)) =>
      /\ pc = "done" /\ out.err = ""
      /\ \A c \in 1..Len(out.deps) : IsPath(inp, out.deps[c])

\* three releases in one chain, read oldest first
C6_Witness ==
    /\ Resolved /\ UniqueNames(inp) /\ Resolvable(inp) /\ ~HasCycle(inp)
    /\ Len(inp) = 3 /\ inp[1].previous = <<>>
    /\ \E c \in 1..Len(out.deps) : Len(out.deps[c]) = 3

\* the circular dependency error was raised with every name of a cycle
CycleReported ==
    /\ pc = "fatal" /\ out.err = "Circular dependency detected!"
    /\ \E n \in Names(inp) :
         /\ OnCycle(inp, n)
         /\ CycleOf(inp, n) \subseteq ToSet(out.path)

\* C7: on a Map with unique names and resolvable previous links that has a
\* cycle, dependencies() raises the circular dependency error, and the path
\* of the message holds every name of a cycle
C7_CycleDetected ==
    (Resolved /\ UniqueNames(inp) /\ Resolvable(inp) /\ HasCycle(inp)) =>
      CycleReported

\* C7 as stated: the same of every Map that has a cycle
C7_AnyCycleDetected ==
    (Resolved /\ HasCycle(inp)) => CycleReported

\* a walk that starts outside the cycle it runs into
C7_Witness ==
    /\ Resolved /\ UniqueNames(inp) /\ Resolvable(inp) /\ HasCycle(inp)
    /\ Len(out.path) = 4
    /\ out.path[1] # out.path[4] /\ out.path[2] = out.path[4]


-----------------------------------------------------------------------------
(* str(Map) and Map.parse on the Maps of at most MaxRound releases *)

MaxRound == 2

RoundNames == {<<"A">>, <<"b", "_", "1">>}

\* lists of (visibility, symbols): none, an empty scope, unsorted symbols,
\* local before global with the wildcard, a scope named twice
RoundScopes ==
    { <<>>,
      << <<sGlobal, <<>>>> >>,
      << <<sGlobal, <<sB, sA>>>> >>,
      << <<sLocal, <<sC>>>>, <<sGlobal, <<sStar, sA>>>> >>,
      << <<sGlobal, <<sA>>>>, <<sGlobal, <<sA, sA>>>> >> }

RoundReleases ==
    [name : RoundNames, previous : RoundNames \cup {<<>>},
     symbols : RoundScopes]

InitRound ==
    /\ cmd = "roundtrip" /\ pc = "start"
    /\ inp \in UNION {[1..k -> RoundReleases] : k \in 0..MaxRound}
    /\ out = <<>> /\ failure = ""
    /\ Untouched

\* str(map): the text, and every symbol list of the Map sorted in place
R_Serialize ==
    /\ cmd = "roundtrip" /\ pc = "start"
    /\ out' = MapStr(inp)
    /\ inp' = SortedSymbols(inp)
    /\ pc' = "text"
    /\ UNCHANGED <<cmd, file, cur_map, parsed, args, added, removed, latest,
                   r, release_info, output, failure>>

\* self.releases = releases, line 480, unless parse raised
Parsed(p) ==
    IF p.err # ""
    THEN Raise("ParserError") /\ UNCHANGED parsed
    ELSE parsed' = p.releases /\ pc' = "done" /\ UNCHANGED failure

\* Map.parse on the lines of the text
R_Parse ==
    /\ cmd = "roundtrip" /\ pc = "text"
    /\ Parsed(parse(readlines(out)))
    /\ UNCHANGED <<cmd, inp, out, file, cur_map, args, added, removed, latest,
                   r, release_info, output>>

NextRound == R_Serialize \/ R_Parse

SpecRound == InitRound /\ [][NextRound]_vars

\* C8: parsing the text of a Map succeeds and gives the same releases in the
\* same order: same names, same previous and, scope by scope, the same
\* visibility and the same set of symbols
C8_RoundTrip ==
    (cmd = "roundtrip" /\ pc \notin {"start", "text"}) =>
      /\ pc = "done"
      /\ Len(parsed) = Len(inp)
      /\ \A i \in 1..Len(inp) : Shape(parsed[i]) = Shape(inp[i])

\* two releases, one linked to the other, with two scopes and with none
C8_Witness ==
    /\ cmd = "roundtrip" /\ pc = "done"
    /\ Len(inp) = 2
    /\ inp[2].previous = inp[1].name
    /\ Len(inp[1].symbols) = 2 /\ inp[2].symbols = <<>>
    /\ parsed[1].symbols[2][2] = <<sStar, sA>>


-----------------------------------------------------------------------------
(* Map.parse on the texts of at most MaxText characters *)

MaxText == 5

TextChars == {"A", "{", "}", ";", " ", "\n"}

InitParse ==
    /\ cmd = "parse" /\ pc = "start"
    /\ inp \in UNION {[1..k -> TextChars] : k \in 0..MaxText}
    /\ out = <<>> /\ failure = ""
    /\ Untouched

\* Map.parse(lines), the lines being those of the text inp; out holds the
\* parser's variables and, when it raised, the fields of the ParserError
P_Parse ==
    /\ cmd = "parse" /\ pc = "start"
    /\ Return(parse(readlines(inp)))
    /\ UNCHANGED <<cmd, inp, file, cur_map, parsed, args, added, removed,
                   latest, r, release_info, output>>

SpecParse == InitParse /\ [][P_Parse]_vars

\* the parser raised: out.index and out.column are where it stood, at the
\* first character it could not consume
ParseFailed == cmd = "parse" /\ pc = "fatal"

\* C9: the line and column of a ParserError are the position of the first
\* character that could not be consumed, and its context is that line
C9_ErrorPosition ==
    ParseFailed =>
      /\ out.line = out.index
      /\ out.col = out.column
      /\ out.context = readlines(inp)[out.index + 1]

\* C9 but for a failure at the first character of a line after the first
C9_ErrorPositionInsideLine ==
    (ParseFailed /\ ~(out.column = 0 /\ out.index > 0)) =>
      /\ out.line = out.index
      /\ out.col = out.column
      /\ out.context = readlines(inp)[out.index + 1]

\* a failure at the first character of the second line
C9_Witness ==
    /\ ParseFailed
    /\ out.index = 1 /\ out.column = 0
    /\ out.line = 0 /\ out.col = Len(readlines(inp)[1])


-----------------------------------------------------------------------------
(* get_info_from_release_string on the names of at most MaxName characters *)

MaxName == 7

NameChars == {"L", "_", "1"}

InitInfo ==
    /\ cmd = "release_info" /\ pc = "start"
    /\ inp \in UNION {[1..k -> NameChars] : k \in 0..MaxName}
    /\ out = <<>> /\ failure = ""
    /\ Untouched

\* get_info_from_release_string(inp)
I_Info ==
    /\ cmd = "release_info" /\ pc = "start"
    /\ Return(get_info_from_release_string(inp))
    /\ UNCHANGED <<cmd, inp, file, cur_map, parsed, args, added, removed,
                   latest, r, release_info, output>>

SpecInfo == InitInfo /\ [][I_Info]_vars

\* underscores and then a digit stand at the 0-based position i of name
RunAt(name, i) ==
    \E j \in (i + 2)..Len(name) :
        /\ IsDigit(name[j])
        /\ \A k \in (i + 1)..(j - 1) : name[k] = "_"

HasRun(name) == \E i \in 0..(Len(name) - 1) : RunAt(name, i)

\* the position of the first such run
FirstRun(name) ==
    CHOOSE i \in 0..(Len(name) - 1) :
        RunAt(name, i) /\ \A j \in 0..(i - 1) : ~RunAt(name, j)

\* name without its trailing underscores
RECURSIVE Stripped(_)
Stripped(name) ==
    IF name # <<>> /\ name[Len(name)] = "_"
    THEN Stripped(Upto(name, Len(name) - 1))
    ELSE name

\* the integers of the remainder that starts at position i of name
IntsFrom(name, i) ==
    [k \in 1..Len(AlnumRuns(From(name, i))) |->
        ToInt(AlnumRuns(From(name, i))[k])]

\* C10: of a name with a run of underscores and digits, the prefix is the
\* text before the first run, the version the integers of the rest and the
\* suffix those integers joined with underscores; of a name without such a
\* run, the prefix is the name less its trailing underscores and the
\* version is the empty list
C10_ReleaseInfo ==
    (cmd = "release_info" /\ pc = "done") =>
      IF HasRun(inp)
      THEN /\ out.prefix = Upto(inp, FirstRun(inp))
           /\ out.version = IntsFrom(inp, FirstRun(inp))
           /\ out.suffix = VerSuffix(out.version)
      ELSE /\ out.prefix = Stripped(inp)
           /\ out.version = <<>>

\* C10 for the names that have a run of underscores and digits
C10_VersionedInfo ==
    (cmd = "release_info" /\ pc = "done" /\ HasRun(inp)) =>
      /\ out.prefix = Upto(inp, FirstRun(inp))
      /\ out.version = IntsFrom(inp, FirstRun(inp))
      /\ out.suffix = VerSuffix(out.version)

\* a name that ends with underscores and has no version
C10_Witness ==
    /\ cmd = "release_info" /\ pc = "done"
    /\ inp = <<"L", "_">>
    /\ out.prefix = <<"L">>
    /\ out.version = <<NoneInt, NoneInt, NoneInt>>


-----------------------------------------------------------------------------
(* bump_version on the version lists of at most MaxVerLen components *)

MaxVerLen == 3
MaxComponent == 2

InitBump ==
    /\ cmd = "bump_version" /\ pc = "start"
    /\ inp \in [version : UNION {[1..k -> 0..MaxComponent] : k \in 1..MaxVerLen},
                abi_break : BOOLEAN]
    /\ out = <<>> /\ failure = ""
    /\ Untouched

\* bump_version(inp.version, inp.abi_break)
B_Bump ==
    /\ cmd = "bump_version" /\ pc = "start"
    /\ Return(bump_version(inp.version, inp.abi_break))
    /\ UNCHANGED <<cmd, inp, file, cur_map, parsed, args, added, removed,
                   latest, r, release_info, output>>

SpecBump == InitBump /\ [][B_Bump]_vars

\* the list the bump of v is said to be: CUR + 1 and zeros when the ABI was
\* broken, else CUR, AGE + 1 and zeros
Bumped(v, abi_break) ==
    [i \in 1..Len(v) |->
       IF abi_break
       THEN (IF i = 1 THEN v[1] + 1 ELSE 0)
       ELSE (IF i = 1 THEN v[1] ELSE IF i = 2 THEN v[2] + 1 ELSE 0)]

\* C11: bump_version returns, for a list of 1, 2 or 3 non-negative integers,
\* a list of the same length: [CUR + 1, 0, ...] with abi_break, else CUR kept,
\* AGE incremented and every later component 0
C11_BumpVersion ==
    (cmd = "bump_version" /\ pc # "start") =>
      /\ pc = "done" /\ out.err = ""
      /\ out.version = Bumped(inp.version, inp.abi_break)

\* C11 for the lists that have an AGE, and for any list with abi_break
C11_BumpWithAge ==
    (cmd = "bump_version" /\ pc # "start"
       /\ (inp.abi_break \/ Len(inp.version) >= 2)) =>
      /\ pc = "done" /\ out.err = ""
      /\ out.version = Bumped(inp.version, inp.abi_break)

\* a list of one component bumped without ABI break
C11_Witness ==
    /\ cmd = "bump_version" /\ pc = "fatal"
    /\ Len(inp.version) = 1 /\ ~inp.abi_break
    /\ out.err = "IndexError"


-----------------------------------------------------------------------------
(* Properties of new *)

\* new has built its Map
Created == cmd = "new" /\ pc \in {"mutated", "checked", "sorted", "done"}
                       /\ clean_symbols(args.input) # <<>>

\* C12: new --release R, for an R without version digits, names the release
\* R in upper case
C12_LiteralName ==
    (Created /\ Truthy(args.release) /\ ~HasRun(args.release)) =>
      r.name = StrUpper(args.release)

\* new --release lx
C12_Witness ==
    /\ Created /\ pc = "done" /\ output.opened
    /\ args.release = <<"l", "x">>
    /\ r.name = StrUpper(<<"l", "x">> \o VerSuffix(<<NoneInt, NoneInt, NoneInt>>))

\* C13: new, given symbols, produces a Map of one release: global holds the
\* symbols given, local is {*} and previous is empty; given no symbol it
\* produces nothing
C13_NewScript ==
    /\ Created =>
         /\ Len(cur_map.releases) = 1
         /\ cur_map.releases[1].previous = <<>>
         /\ Len(cur_map.releases[1].symbols) = 2
         /\ cur_map.releases[1].symbols[1][1] = sGlobal
         /\ ToSet(cur_map.releases[1].symbols[1][2])
              = ToSet(clean_symbols(args.input))
         /\ cur_map.releases[1].symbols[2] = <<sLocal, <<sStar>>>>
    /\ (cmd = "new" /\ pc = "done" /\ clean_symbols(args.input) = <<>>) =>
         /\ cur_map = NewMap
         /\ output = Unopened

\* a script written for a library name and a version string
C13_Witness ==
    /\ Created /\ pc = "done" /\ output.opened
    /\ Truthy(args.name)
    /\ Len(clean_symbols(args.input)) = 3


-----------------------------------------------------------------------------
(* clean_symbols on lists of at most MaxTokens tokens *)

MaxTokens == 2
MaxTokenLen == 3

\* the tokens line.split() gives: no whitespace in them
Tokens ==
    UNION {[1..k -> {"a", "."}] : k \in 1..MaxTokenLen}
    \cup {<<"a", ".", "b">>, <<";", "a", "_", "1">>, <<"*">>}

InitClean ==
    /\ cmd = "clean_symbols" /\ pc = "start"
    /\ inp \in UNION {[1..k -> Tokens] : k \in 0..MaxTokens}
    /\ out = <<>> /\ failure = ""
    /\ Untouched

\* clean_symbols(inp)
C_Clean ==
    /\ cmd = "clean_symbols" /\ pc = "start"
    /\ out' = clean_symbols(inp)
    /\ pc' = "done"
    /\ UNCHANGED <<cmd, inp, file, cur_map, parsed, args, added, removed,
                   latest, r, release_info, output, failure>>

SpecClean == InitClean /\ [][C_Clean]_vars

\* the positions i..j of token hold word characters and no more of them
\* stand next to either end
IsWordRun(token, i, j) ==
    /\ i <= j
    /\ \A k \in i..j : IsWord(token[k])
    /\ i = 1 \/ ~IsWord(token[i - 1])
    /\ j = Len(token) \/ ~IsWord(token[j + 1])

\* where the runs of word characters of token start
RunStarts(token) ==
    {i \in 1..Len(token) : \E j \in i..Len(token) : IsWordRun(token, i, j)}

\* the run of word characters that starts at the position i of token
RunFrom(token, i) ==
    SubSeq(token, i, CHOOSE j \in i..Len(token) : IsWordRun(token, i, j))

\* the runs of word characters of token, from left to right
AllRuns(token) ==
    [k \in 1..Cardinality(RunStarts(token)) |->
       RunFrom(token,
               CHOOSE i \in RunStarts(token) :
                  Cardinality({x \in RunStarts(token) : x < i}) = k - 1)]

\* the word characters that start token, if any
FirstRunOnly(token) ==
    IF 1 \in RunStarts(token) THEN <<RunFrom(token, 1)>> ELSE <<>>

Cleaned == cmd = "clean_symbols" /\ pc = "done"

\* C14: every token gives one symbol for each of its runs of word
\* characters, from left to right, and a token without word characters gives
\* none
C14_CleanAllRuns ==
    Cleaned => out = Join([i \in 1..Len(inp) |-> AllRuns(inp[i])])

\* C14 as stated: every token gives at most one symbol, the word characters
\* it starts with
C14_CleanLeadingRun ==
    Cleaned => out = Join([i \in 1..Len(inp) |-> FirstRunOnly(inp[i])])

\* a token with two runs of word characters
C14_Witness ==
    /\ Cleaned
    /\ inp = << <<"a", ".", "b">>, <<"*">> >>
    /\ out = <<sA, sB>>


-----------------------------------------------------------------------------
(* guess_latest_release on Maps of at most MaxLatest releases *)

MaxLatest == 2

\* names with and without a version, one with a version int() refuses
LatestNames ==
    {<<"L", "_", "9", "_", "0", "_", "0">>,
     <<"L", "_", "1", "0", "_", "0", "_", "0">>,
     nL000, <<"L">>, <<"L", "_", "1", "a">>}

LatestReleases ==
    [name : LatestNames,
     previous : {<<>>, <<"L", "_", "9", "_", "0", "_", "0">>, nL000},
     symbols : {<<>>}]

InitLatest ==
    /\ cmd = "guess_latest_release" /\ pc = "start"
    /\ inp \in [init : BOOLEAN,
                releases : UNION {[1..k -> LatestReleases] : k \in 0..MaxLatest}]
    /\ out = <<>> /\ failure = ""
    /\ Untouched

\* Map.guess_latest_release() on the Map inp
L_Guess ==
    /\ cmd = "guess_latest_release" /\ pc = "start"
    /\ Return(guess_latest_release(inp))
    /\ UNCHANGED <<cmd, inp, file, cur_map, parsed, args, added, removed,
                   latest, r, release_info, output>>

SpecLatest == InitLatest /\ [][L_Guess]_vars

\* the infos of the heads of the chains of releases
HeadInfos(releases) ==
    {get_info_from_release_string(dependencies(releases).deps[i][1]) :
       i \in 1..Len(dependencies(releases).deps)}

\* the heads whose suffix is greater than the one of the baseline
Qualified(releases) ==
    {h \in HeadInfos(releases) : StrLess(Baseline.suffix, h.suffix)}

LatestReturned == cmd = "guess_latest_release" /\ pc = "done"

\* C15: guess_latest_release returns the info of a head whose suffix is the
\* greatest of the heads as a string, and the baseline with suffix _0_0_0
\* and no release only when no head has a suffix greater than _0_0_0
C15_LatestByString ==
    LatestReturned =>
       IF Qualified(inp.releases) = {}
       THEN out = Baseline
       ELSE /\ out \in Qualified(inp.releases)
            /\ \A h \in HeadInfos(inp.releases) : ~StrLess(out.suffix, h.suffix)

\* the heads L_9_0_0 and L_10_0_0: the first is the latest
C15_Witness ==
    /\ LatestReturned
    /\ Len(inp.releases) = 2
    /\ inp.releases[1].name = <<"L", "_", "1", "0", "_", "0", "_", "0">>
    /\ inp.releases[2].name = <<"L", "_", "9", "_", "0", "_", "0">>
    /\ inp.releases[1].previous = <<>> /\ inp.releases[2].previous = <<>>
    /\ out.release = <<"L", "_", "9", "_", "0", "_", "0">>
    /\ out.version = <<9, 0, 0>>

\* a head of the Map whose name carries a version suffix
VersionedHead(releases) ==
    \E h \in HeadInfos(releases) : Truthy(h.suffix)

\* C28: on an initialized Map with a head whose name carries a version
\* suffix, guess_latest_release returns the name of a release of the Map
C28_LatestInMap ==
    (LatestReturned /\ inp.init /\ VersionedHead(inp.releases)) =>
      \E i \in 1..Len(inp.releases) : inp.releases[i].name = out.release

\* the Map whose only release is L_0_0_0: the baseline is returned
C28_Witness ==
    /\ LatestReturned /\ inp.init
    /\ Len(inp.releases) = 1
    /\ inp.releases[1].name = nL000 /\ inp.releases[1].previous = <<>>
    /\ VersionedHead(inp.releases)
    /\ out = Baseline


-----------------------------------------------------------------------------
(* guess_name on Maps of at most MaxGuess releases *)

MaxGuess == 2

\* names with a common prefix, without one, and with a common prefix of
\* underscores only
GuessReleases ==
    [name : {nL10, <<"L", "A", "_", "2">>,
             <<"_", "A", "_", "1">>, <<"_", "B", "_", "3">>},
     previous : {<<>>}, symbols : {<<>>}]

GuessMaps ==
    [init : {TRUE},
     releases : UNION {[1..k -> GuessReleases] : k \in 0..MaxGuess}]
    \cup {NewMap}

InitGuess ==
    /\ cmd = "guess_name" /\ pc = "start"
    /\ inp \in [map : GuessMaps,
                abi_break : BOOLEAN,
                new_release : {NoneStr, <<"l", "x">>},
                new_prefix : {NoneStr, <<"l">>},
                new_suffix : {NoneStr, <<"_", "5">>},
                new_ver : {NoneVer, <<1, 0>>},
                prev_release : {NoneStr, <<"P", "_", "2", "_", "0">>, <<"Q">>},
                prev_prefix : {NoneStr, <<"p", "p">>},
                prev_ver : {NoneVer, <<3, 1>>, <<4>>}]
    /\ out = <<>> /\ failure = ""
    /\ Untouched

\* Map.guess_name(...) on the Map inp.map with the arguments of inp
G_Guess ==
    /\ cmd = "guess_name" /\ pc = "start"
    /\ Return(guess_name(inp.map, inp.abi_break, inp.new_release,
                         inp.new_prefix, inp.new_suffix, inp.new_ver,
                         inp.prev_release, inp.prev_prefix, inp.prev_ver))
    /\ UNCHANGED <<cmd, inp, file, cur_map, parsed, args, added, removed,
                   latest, r, release_info, output>>

SpecGuess == InitGuess /\ [][G_Guess]_vars


GuessCalled == cmd = "guess_name" /\ pc # "start"

\* the name is guessed: no literal name was given
Guessing == GuessCalled /\ ~Truthy(inp.new_release)

\* the prefix and the previous version guess_name has after lines 793-839
PrefixPart ==
    GuessPrefix(inp.map, inp.new_prefix, inp.prev_release, inp.prev_prefix,
                inp.prev_ver)

\* the suffix guess_name has after lines 843-863
SuffixPart ==
    GuessSuffix(inp.map, inp.abi_break, inp.new_suffix, inp.new_ver,
                PrefixPart.prev_ver)

IsVersion(v) == TruthyVer(v) /\ \A i \in 1..Len(v) : v[i] # NoneInt

\* the previous versions the caller gave: prev_ver and the one of
\* prev_release
PrevVersions ==
    {v \in {inp.prev_ver,
            IF Truthy(inp.prev_release)
            THEN get_info_from_release_string(inp.prev_release).version
            ELSE NoneVer} : IsVersion(v)}

\* the version of the guessed latest release, if it has one
LatestVersions ==
    {v \in {guess_latest_release(inp.map).version} :
       guess_latest_release(inp.map).err = "" /\ IsVersion(v)}

\* the suffixes the order of C16 allows
SaidSuffixes ==
    IF Truthy(inp.new_suffix) THEN {inp.new_suffix}
    ELSE IF TruthyVer(inp.new_ver) THEN {VerSuffix(inp.new_ver)}
    ELSE IF PrevVersions # {}
    THEN {VerSuffix(Bumped(v, inp.abi_break)) : v \in PrevVersions}
    ELSE {VerSuffix(Bumped(v, inp.abi_break)) : v \in LatestVersions}

\* C16: the suffix of the guessed name is new_suffix, else new_ver joined
\* with underscores, else the bumped version of prev_release or prev_ver,
\* else the bumped version of the latest release; so with new_ver and a
\* prefix from a fallback the name is the prefix in upper case followed by
\* new_ver joined with underscores
C16_SuffixOrder ==
    (/\ Guessing
     /\ PrefixPart.err = "" /\ Truthy(PrefixPart.new_prefix)
     /\ SaidSuffixes # {})
    => /\ out.err = ""
       /\ \E x \in SaidSuffixes :
             out.name = StrUpper(PrefixPart.new_prefix) \o x

\* prev_release, when given, holds a version
PrevReleaseVersioned ==
    Truthy(inp.prev_release)
    => IsVersion(get_info_from_release_string(inp.prev_release).version)

\* the same order where new_ver comes with new_prefix, prev_release holds a
\* version and the version to bump has an AGE or the ABI was broken
C16_SuffixOrderElse ==
    (/\ Guessing
     /\ PrefixPart.err = "" /\ Truthy(PrefixPart.new_prefix)
     /\ SaidSuffixes # {}
     /\ PrevReleaseVersioned
     /\ SuffixPart.err = "")
    => /\ out.err = ""
       /\ \E x \in SaidSuffixes :
             out.name = StrUpper(PrefixPart.new_prefix) \o x

\* new_ver with the prefix of prev_prefix: guess_name raises
C16_Witness ==
    /\ Guessing
    /\ ~Truthy(inp.new_prefix) /\ ~Truthy(inp.new_suffix)
    /\ inp.new_ver = <<1, 0>> /\ inp.prev_prefix = <<"p", "p">>
    /\ ~Truthy(inp.prev_release)
    /\ out.err = "TypeError"

StartsWith(name, x) == Len(x) <= Len(name) /\ Upto(name, Len(x)) = x

\* the longest string every name of the non-empty set names starts with
TrueCommonPrefix(names) ==
    CHOOSE x \in {Upto(n, i) : n \in names, i \in 0..Len(CHOOSE m \in names : TRUE)} :
       /\ \A n \in names : StartsWith(n, x)
       /\ \A n \in names :
             \A i \in 0..Len(n) :
                (\A m \in names : StartsWith(m, Upto(n, i))) => i <= Len(x)

\* s without what follows the first version or the trailing underscores
Unversioned(x) ==
    IF VersionOrTrailingStart(x) >= 0
    THEN Upto(x, VersionOrTrailingStart(x)) ELSE x

\* the prefix the order of C17 gives, <<>> when every fallback is without one
SaidPrefix ==
    IF Truthy(inp.new_prefix) THEN inp.new_prefix
    ELSE IF /\ Truthy(inp.prev_release)
            /\ Truthy(get_info_from_release_string(inp.prev_release).prefix)
    THEN get_info_from_release_string(inp.prev_release).prefix
    ELSE IF Truthy(inp.prev_prefix) THEN inp.prev_prefix
    ELSE IF inp.map.releases = <<>> THEN <<>>
    ELSE IF Truthy(Unversioned(TrueCommonPrefix(ReleaseNames(inp.map))))
    THEN Unversioned(TrueCommonPrefix(ReleaseNames(inp.map)))
    ELSE IF Truthy(guess_latest_release(inp.map).prefix)
    THEN guess_latest_release(inp.map).prefix
    ELSE <<>>

\* C17: the prefix of the guessed name is new_prefix, else the one of
\* prev_release, else prev_prefix, else the common prefix of all the names
\* without its version, else the prefix of the latest release; the call
\* fails for insufficient information exactly when the prefix or the suffix
\* is left undetermined
C17_PrefixOrder ==
    (Guessing /\ inp.map.init)
    => IF SaidPrefix = <<>> \/ SaidSuffixes = {}
       THEN out.err = "Insufficient information"
       ELSE /\ out.err # "Insufficient information"
            /\ out.err = "" => StartsWith(out.name, StrUpper(SaidPrefix))

\* the same order where the suffix part of guess_name does not raise,
\* prev_release holds a version and the common prefix is not made of
\* underscores only
C17_PrefixOrderElse ==
    (/\ Guessing /\ inp.map.init
     /\ PrevReleaseVersioned
     /\ SuffixPart.err = ""
     /\ \/ inp.map.releases = <<>>
        \/ TrueCommonPrefix(ReleaseNames(inp.map)) = <<>>
        \/ Truthy(Unversioned(TrueCommonPrefix(ReleaseNames(inp.map)))))
    => IF SaidPrefix = <<>> \/ SaidSuffixes = {}
       THEN out.err = "Insufficient information"
       ELSE out.err = "" /\ StartsWith(out.name, StrUpper(SaidPrefix))

\* no prefix to be found and new_ver given: guess_name raises before it
\* tests what it found
C17_Witness ==
    /\ Guessing /\ inp.map.init
    /\ SaidPrefix = <<>>
    /\ inp.new_ver = <<1, 0>>
    /\ out.err = "TypeError"

\* the names _A_1 and _B_3: their common prefix is an underscore, and the
\* prefix of the latest release is not used
C17_WitnessUnderscore ==
    /\ Guessing /\ inp.map.init
    /\ ReleaseNames(inp.map) = {<<"_", "A", "_", "1">>, <<"_", "B", "_", "3">>}
    /\ SaidPrefix = <<"_", "B">>
    /\ inp.abi_break
    /\ out.err = "Insufficient information"


-----------------------------------------------------------------------------
(* sort_releases_nice on Maps of at most MaxSort releases *)

MaxSort == 3

InitSort ==
    /\ cmd = "sort_releases_nice" /\ pc = "start"
    /\ inp \in [releases : UNION {[1..k -> DepReleases] : k \in 0..MaxSort},
                top_release : DepNames]
    /\ out = <<>> /\ failure = ""
    /\ Untouched

\* Map.sort_releases_nice(inp.top_release) on a Map whose releases are
\* inp.releases
S_Sort ==
    /\ cmd = "sort_releases_nice" /\ pc = "start"
    /\ Return(sort_releases_nice(inp.releases, inp.top_release))
    /\ UNCHANGED <<cmd, inp, file, cur_map, parsed, args, added, removed,
                   latest, r, release_info, output>>

SpecSort == InitSort /\ [][S_Sort]_vars

NiceReturned == cmd = "sort_releases_nice" /\ pc = "done"

\* the call returned, on a Map with unique names
NiceDone == NiceReturned /\ UniqueNames(inp.releases)

\* the chain of top_release: the list of dependencies() it heads
TopChain ==
    TopDependency(dependencies(SortReleases(inp.releases)).deps,
                  inp.top_release)

\* the releases of list whose membership of the chain is member, in the
\* order of list
Part(list, member) ==
    LET Test(x) == InSeq(x.name, TopChain) = member IN SelectSeq(list, Test)

Backwards(list) == [i \in 1..Len(list) |-> list[Len(list) + 1 - i]]

\* C18: the releases of the chain of top_release come first, those with the
\* greater name first, and the other releases follow, those with the greater
\* name first
C18_ChainFirstDescending ==
    NiceReturned =>
       out.releases =
          Backwards(Part(SortReleases(inp.releases), TRUE))
          \o Backwards(Part(SortReleases(inp.releases), FALSE))

\* C18 as stated: the releases of the chain come first in the order of the
\* chain, top_release first, and the others follow in the order of the
\* sort by name
C18_ChainFirstInChainOrder ==
    NiceDone =>
       /\ Len(out.releases) >= Len(TopChain)
       /\ \A i \in 1..Len(TopChain) : out.releases[i].name = TopChain[i]
       /\ SubSeq(out.releases, Len(TopChain) + 1, Len(out.releases))
             = Part(SortReleases(inp.releases), FALSE)

\* A with previous B, B and C: B comes before A, and C follows
C18_Witness ==
    /\ NiceDone
    /\ inp.top_release = <<"A">>
    /\ TopChain = << <<"A">>, <<"B">> >>
    /\ Len(out.releases) = 3
    /\ out.releases[1].name = <<"B">>
    /\ out.releases[2].name = <<"A">>
    /\ out.releases[3].name = <<"C">>


-----------------------------------------------------------------------------
(* The heads of the chains of dependencies(), under SpecDeps *)

\* the heads of the chains returned
Heads == {out.deps[c][1] : c \in 1..Len(out.deps)}

\* the names no release has as its previous
Unreferenced(releases) ==
    {n \in Names(releases) :
       \A i \in 1..Len(releases) : releases[i].previous # n}

\* C19: on a Map with unique names, resolvable previous links and no cycle,
\* in whatever order its releases are, the heads of the chains returned are
\* the releases that no release has as previous, one chain for each, and
\* every release is in a chain
C19_HeadsUnreferenced ==
    (Resolved /\ UniqueNames(inp) /\ Resolvable(inp) /\ ~HasCycle(inp)) =>
      /\ pc = "done"
      /\ Heads = Unreferenced(inp)
      /\ \A c, d \in 1..Len(out.deps) : out.deps[c][1] = out.deps[d][1] => c = d
      /\ \A n \in Names(inp) : \E c \in 1..Len(out.deps) : InSeq(n, out.deps[c])

\* the base is read first and heads a chain, until the release that has it
\* as previous is read
C19_Witness ==
    /\ Resolved /\ UniqueNames(inp) /\ Resolvable(inp) /\ ~HasCycle(inp)
    /\ Len(inp) = 3
    /\ inp[1].previous = <<>>
    /\ inp[2].previous = inp[1].name
    /\ inp[3].previous = inp[1].name
    /\ Len(out.deps) = 2
    /\ Heads = {inp[2].name, inp[3].name}


\* how many releases have the name n
Defined(releases, n) ==
    Cardinality({i \in 1..Len(releases) : releases[i].name = n})

\* the names looked up as a previous before dependencies() returned: those
\* that follow the head in a chain
LookedUpOnce ==
    \A c \in 1..Len(out.deps) :
       \A k \in 2..Len(out.deps[c]) : Defined(inp, out.deps[c][k]) = 1

\* C20: dependencies() raises on every Map with unique names where the
\* previous of some release names no release, and it returns only when every
\* name it looked up as a previous is the name of exactly one release
C20_DanglingUniqueFatal ==
    Resolved =>
      /\ (UniqueNames(inp) /\ ~Resolvable(inp)) => pc = "fatal"
      /\ pc = "done" => LookedUpOnce

\* C20 as stated: dependencies() raises on every Map where the previous of
\* some release names no release
C20_DanglingFatal ==
    Resolved =>
      /\ ~Resolvable(inp) => pc = "fatal"
      /\ pc = "done" => LookedUpOnce

\* the previous of the second release names no release
C20_Witness ==
    /\ Resolved /\ UniqueNames(inp) /\ ~Resolvable(inp)
    /\ Len(inp) = 2
    /\ inp[1].previous = <<>>
    /\ inp[2].previous # <<>>
    /\ pc = "fatal" /\ out.err = "Release not found"

\* the name looked up as a previous has two releases
C20_WitnessDuplicate ==
    /\ Resolved /\ Resolvable(inp)
    /\ Len(inp) = 3
    /\ inp[1].previous = inp[2].name
    /\ inp[2].name = inp[3].name
    /\ pc = "fatal" /\ out.err = "defined more than 1 release"


-----------------------------------------------------------------------------
(* Map.parse on the scripts of at most MaxScript tokens: the prefixes of   *)
(* the sentences of the grammar                                            *)
(*    script  := release*                                                  *)
(*    release := IDENT '{' element* '}' (IDENT)? ';'                       *)
(*    element := IDENT ':' | (IDENT | '*') ';'                             *)
(* and each of them followed by one more token                             *)

MaxScript == 10

ScriptTokens ==
    {<<"a">>, <<"b">>, sStar, <<"{">>, <<"}">>, <<":">>, <<";">>}

IsIdent(t) == t \in {<<"a">>, <<"b">>}

\* where the grammar stands after the token t, from where it stood at g
GramStep(g, t) ==
    CASE g = "script" -> IF IsIdent(t) THEN "name" ELSE "reject"
      [] g = "name" -> IF t = <<"{">> THEN "body" ELSE "reject"
      [] g = "body" ->
           IF IsIdent(t) THEN "ident"
           ELSE IF t = sStar THEN "star"
           ELSE IF t = <<"}">> THEN "closed" ELSE "reject"
      [] g = "ident" -> IF t \in {<<":">>, <<";">>} THEN "body" ELSE "reject"
      [] g = "star" -> IF t = <<";">> THEN "body" ELSE "reject"
      [] g = "closed" ->
           IF t = <<";">> THEN "script"
           ELSE IF IsIdent(t) THEN "previous" ELSE "reject"
      [] g = "previous" -> IF t = <<";">> THEN "script" ELSE "reject"
      [] OTHER -> "reject"

\* where the grammar stands after the tokens
RECURSIVE Gram(_)
Gram(tokens) ==
    IF tokens = <<>> THEN "script"
    ELSE GramStep(Gram(Upto(tokens, Len(tokens) - 1)), tokens[Len(tokens)])

\* the prefixes of n tokens of the sentences of the grammar
RECURSIVE Prefixes(_)
Prefixes(n) ==
    IF n = 0 THEN {<<>>}
    ELSE {x \in {Append(p, t) : p \in Prefixes(n - 1), t \in ScriptTokens} :
            Gram(x) # "reject"}

\* what stands between the token t and the token u that follows it
Gap(t, u) ==
    IF t \in {<<"{">>, <<";">>} THEN <<"\n">>
    ELSE IF IsIdent(t) /\ ~IsIdent(u) THEN <<>>
    ELSE <<" ">>

\* the text of the script made of the tokens
ScriptText(tokens) ==
    Join([i \in 1..Len(tokens) |->
            tokens[i] \o Gap(tokens[i],
                             IF i < Len(tokens) THEN tokens[i + 1] ELSE <<>>)])

\* longer scripts: a release without scope after one with a scope, two
\* symbols without scope, a scope name used twice
OtherScripts ==
    { << <<"a">>, <<"{">>, <<"a">>, <<":">>, <<"}">>, <<";">>,
         <<"b">>, <<"{">>, <<"a">>, <<";">>, <<"}">>, <<";">> >>,
      << <<"a">>, <<"{">>, <<"a">>, <<";">>, <<"b">>, <<";">>, <<"}">>, <<";">>,
         <<"b">>, <<"{">>, sStar, <<";">>, <<"}">>, <<"a">>, <<";">> >>,
      << <<"a">>, <<"{">>, <<"a">>, <<":">>, <<"b">>, <<";">>,
         <<"a">>, <<":">>, sStar, <<";">>, <<"}">>, <<"b">>, <<";">> >> }

InitScript ==
    /\ cmd = "parse script" /\ pc = "start"
    /\ inp \in {<<>>} \cup OtherScripts \cup
               {Append(p, t) : p \in UNION {Prefixes(k) : k \in 0..(MaxScript - 1)},
                               t \in ScriptTokens}
    /\ out = <<>> /\ failure = ""
    /\ Untouched

\* Map.parse(lines), the lines being those of the script of the tokens inp
T_Parse ==
    /\ cmd = "parse script" /\ pc = "start"
    /\ Return(parse(readlines(ScriptText(inp))))
    /\ UNCHANGED <<cmd, inp, file, cur_map, parsed, args, added, removed,
                   latest, r, release_info, output>>

SpecScript == InitScript /\ [][T_Parse]_vars


\* What the tokens are said to build: [g, releases, identifier], g being
\* where the grammar stands

SaidStart == [g |-> "script", releases |-> <<>>, identifier |-> <<>>]

\* the symbol joins the scope opened last in the release; without one, a
\* scope global is opened for it first
SaidSymbol(rel, symbol) ==
    IF rel.symbols = <<>>
    THEN [rel EXCEPT !.symbols = << <<sGlobal, <<symbol>>>> >>]
    ELSE [rel EXCEPT !.symbols[Len(rel.symbols)][2] = Append(@, symbol)]

SaidStep(b, t) ==
    CASE GramStep(b.g, t) = "reject" -> [b EXCEPT !.g = "reject"]
      [] b.g = "script" ->
           [b EXCEPT !.g = "name",
                     !.releases = Append(@, [NewRelease EXCEPT !.name = t])]
      [] b.g = "body" /\ t # <<"}">> ->
           [b EXCEPT !.g = GramStep(b.g, t), !.identifier = t]
      [] b.g \in {"ident", "star"} /\ t = <<";">> ->
           [b EXCEPT !.g = "body",
                     !.releases[Len(b.releases)] = SaidSymbol(@, b.identifier)]
      [] b.g = "ident" /\ t = <<":">> ->
           [b EXCEPT !.g = "body",
                     !.releases[Len(b.releases)].symbols =
                         Append(@, <<b.identifier, <<>>>>)]
      [] b.g = "closed" /\ t # <<";">> ->
           [b EXCEPT !.g = "previous", !.identifier = t]
      [] b.g = "previous" ->
           [b EXCEPT !.g = "script",
                     !.releases[Len(b.releases)].previous = b.identifier]
      [] OTHER -> [b EXCEPT !.g = GramStep(b.g, t)]

RECURSIVE Said(_)
Said(tokens) ==
    IF tokens = <<>> THEN SaidStart
    ELSE SaidStep(Said(Upto(tokens, Len(tokens) - 1)), tokens[Len(tokens)])

ScriptParsed == cmd = "parse script" /\ pc # "start"

\* C21: a sentence of the grammar is parsed without error, the parser ends
\* in state 0, and the releases are those of the sentence in its order:
\* name, one scope for each `IDENT :` (never merged), each symbol in the
\* scope opened last in its release, previous the identifier after `}`
C21_SentenceParsed ==
    (ScriptParsed /\ Gram(inp) = "script") =>
       /\ pc = "done" /\ out.err = ""
       /\ out.state = 0
       /\ out.releases = Said(inp).releases

\* a release with a scope name used twice and a previous
C21_Witness ==
    /\ ScriptParsed /\ Gram(inp) = "script"
    /\ Len(out.releases) = 1
    /\ out.releases[1].previous = <<"b">>
    /\ Len(out.releases[1].symbols) = 2
    /\ out.releases[1].symbols[1] = <<<<"a">>, <<<<"b">>>>>>
    /\ out.releases[1].symbols[2] = <<<<"a">>, <<sStar>>>>


\* the tokens before the last one
Front(tokens) == Upto(tokens, Len(tokens) - 1)

\* the 0-based offset in the text of the script where its last token starts
LastTokenAt(tokens) ==
    Len(ScriptText(tokens))
    - Len(tokens[Len(tokens)] \o Gap(tokens[Len(tokens)], <<>>))

\* the 0-based line of the offset n of text
LineOf(text, n) == Cardinality({k \in 1..n : text[k] = "\n"})

\* the 0-based column of the offset n of text
ColumnOf(text, n) ==
    n - Cardinality({k \in 1..n : \E j \in k..n : text[j] = "\n"})

\* parse raised a ParserError where the last token starts
RejectedAtLast ==
    /\ pc = "fatal" /\ out.err # ""
    /\ out.index = LineOf(ScriptText(inp), LastTokenAt(inp))
    /\ out.column = ColumnOf(ScriptText(inp), LastTokenAt(inp))

\* C22: a script that is not a prefix of a sentence of the grammar is
\* rejected with a ParserError at its first offending token
C22_Rejected ==
    (ScriptParsed /\ Gram(inp) = "reject") => RejectedAtLast

\* the same, but for a `:` that follows `*`
C22_RejectedButStarScope ==
    (/\ ScriptParsed /\ Gram(inp) = "reject"
     /\ ~(Gram(Front(inp)) = "star" /\ inp[Len(inp)] = <<":">>))
    => RejectedAtLast

\* `a { * :` is parsed without error, and * is the name of a scope
C22_Witness ==
    /\ ScriptParsed
    /\ inp = << <<"a">>, <<"{">>, sStar, <<":">> >>
    /\ pc = "done"
    /\ out.releases[1].symbols = << <<sStar, <<>>>> >>


\* the state of the parser FSM where the grammar stands at g
StateAt(g) ==
    CASE g = "script" -> 0 [] g = "name" -> 1 [] g = "body" -> 2
      [] g \in {"ident", "star"} -> 3 [] g = "closed" -> 4
      [] g = "previous" -> 5 [] OTHER -> -1

\* the token i ends a symbol
EndsSymbol(tokens, i) ==
    tokens[i] = <<";">> /\ Gram(Upto(tokens, i - 1)) \in {"ident", "star"}

\* the token i ends a symbol that no scope of its release precedes
EndsBareSymbol(tokens, i) ==
    /\ EndsSymbol(tokens, i)
    /\ Said(Upto(tokens, i - 1)).releases[Len(Said(Upto(tokens, i - 1)).releases)].symbols = <<>>

\* how many symbols the releases hold
RECURSIVE SymbolCount(_)
SymbolCount(releases) ==
    IF releases = <<>> THEN 0
    ELSE Len(Join([k \in 1..Len(releases[1].symbols) |->
                     releases[1].symbols[k][2]]))
         + SymbolCount(Tail(releases))

\* the parser's variables after the first i tokens of inp
ParsedUpto(i) == parse(readlines(ScriptText(Upto(inp, i))))

\* C23: a symbol read while its release has no scope yet opens one scope
\* global and joins it once; the parser is back in state 2, the later
\* symbols without scope of the release join the same entry, and each
\* release starts without scope
C23_ImplicitGlobal ==
    (/\ ScriptParsed /\ Gram(inp) # "reject"
     /\ \E i \in 1..Len(inp) : EndsBareSymbol(inp, i))
    => /\ pc = "done"
       /\ out.state = StateAt(Gram(inp))
       /\ out.releases = Said(inp).releases
       /\ SymbolCount(out.releases)
             = Cardinality({i \in 1..Len(inp) : EndsSymbol(inp, i)})
       /\ \A i \in 1..Len(inp) :
             EndsBareSymbol(inp, i) =>
                /\ ParsedUpto(i).state = 2
                /\ ParsedUpto(i).releases[Len(ParsedUpto(i).releases)].symbols
                      = << <<sGlobal, <<inp[i - 1]>>>> >>

\* two symbols without scope in the first release, one in the second
C23_Witness ==
    /\ ScriptParsed /\ pc = "done"
    /\ Len(inp) = 15
    /\ Len(out.releases) = 2
    /\ out.releases[1].symbols = << <<sGlobal, <<<<"a">>, <<"b">>>>>> >>
    /\ out.releases[2].symbols = << <<sGlobal, <<sStar>>>> >>

\* a scope in the first release, a symbol without scope in the second
C23_WitnessSecond ==
    /\ ScriptParsed /\ pc = "done"
    /\ Len(inp) = 12
    /\ Len(out.releases) = 2
    /\ out.releases[1].symbols = << <<<<"a">>, <<>>>> >>
    /\ out.releases[2].symbols = << <<sGlobal, <<<<"a">>>>>> >>


\* C24: when the script ends while the parser is in a state other than 0,
\* parse returns without error, and the releases hold the unfinished
\* release with the name, scopes and symbols read so far and no previous
C24_DanglingAccepted ==
    (ScriptParsed /\ Gram(inp) \notin {"script", "reject"}) =>
       /\ pc = "done" /\ out.err = ""
       /\ out.state = StateAt(Gram(inp)) /\ out.state # 0
       /\ out.releases = Said(inp).releases
       /\ out.releases[Len(out.releases)].previous = <<>>

\* the script ends after the name of the previous release
C24_Witness ==
    /\ ScriptParsed /\ pc = "done"
    /\ inp = << <<"a">>, <<"{">>, <<"a">>, <<":">>, <<"b">>, <<";">>, <<"}">>, <<"b">> >>
    /\ out.state = 5
    /\ out.releases[1].symbols = << <<<<"a">>, <<<<"b">>>>>> >>
    /\ out.releases[1].previous = <<>>


-----------------------------------------------------------------------------
(* Map.duplicates on Maps of one or two releases whose scopes hold at most *)
(* MaxSymbols symbols                                                      *)

MaxSymbols == 2

DupScopes ==
    {<<n, l>> : n \in {sGlobal, sLocal},
                l \in UNION {[1..k -> {sA, sB}] : k \in 0..MaxSymbols}}

\* a first release of at most two scope entries
DupFirst ==
    {[NewRelease EXCEPT !.name = <<"A">>, !.symbols = y] :
        y \in {<<>>} \cup {<<d>> : d \in DupScopes}
                \cup {<<d, e>> : d, e \in DupScopes}}

\* and a second one, without and with a duplicate
DupSecond ==
    {[NewRelease EXCEPT !.name = <<"B">>, !.symbols = << <<sGlobal, <<sA>>>> >>],
     [NewRelease EXCEPT !.name = <<"B">>,
                        !.symbols = << <<sLocal, <<sB, sA, sB>>>> >>]}

InitDups ==
    /\ cmd = "duplicates" /\ pc = "start"
    /\ inp \in {<<x>> : x \in DupFirst}
               \cup {<<x, y>> : x \in DupFirst, y \in DupSecond}
    /\ out = <<>> /\ failure = ""
    /\ Untouched

\* Map.duplicates() on a Map whose releases are inp
M_Duplicates ==
    /\ cmd = "duplicates" /\ pc = "start"
    /\ out' = duplicates(inp)
    /\ pc' = "done"
    /\ UNCHANGED <<cmd, inp, file, cur_map, parsed, args, added, removed,
                   latest, r, release_info, output, failure>>

SpecDups == InitDups /\ [][M_Duplicates]_vars

DupsDone == cmd = "duplicates" /\ pc = "done"

\* the triples of release name, scope name and symbol reported by out
ReportedDups ==
    UNION {UNION {{<<out[i][1], out[i][2][k][1], x>> : x \in out[i][2][k][2]} :
                  k \in 1..Len(out[i][2])} :
           i \in 1..Len(out)}

\* how many times the symbol x stands in the scope entries of release
\* named scope
TimesInScope(release, scope, x) ==
    Len(SelectSeq(Join([k \in 1..Len(release.symbols) |->
                          IF release.symbols[k][1] = scope
                          THEN release.symbols[k][2] ELSE <<>>]),
                  LAMBDA y : y = x))

\* how many times the symbol x stands in the scope entry k of release
TimesInEntry(release, k, x) ==
    Len(SelectSeq(release.symbols[k][2], LAMBDA y : y = x))

\* the symbols that stand more than once in release under a scope name
DupsByScopeName ==
    UNION {{<<inp[i].name, q[1], q[2]>> :
              q \in {q \in {sGlobal, sLocal} \X {sA, sB} :
                       TimesInScope(inp[i], q[1], q[2]) > 1}} :
           i \in 1..Len(inp)}

\* the symbols that stand more than once in a scope entry of a release
DupsByEntry ==
    UNION {UNION {{<<inp[i].name, inp[i].symbols[k][1], x>> :
                     x \in {x \in {sA, sB} : TimesInEntry(inp[i], k, x) > 1}} :
                  k \in 1..Len(inp[i].symbols)} :
           i \in 1..Len(inp)}

\* C25: the duplicates reported are, for each release and scope name, the
\* symbols that stand more than once in the release under that scope name,
\* in one scope entry or in several, and no other symbol
C25_DuplicatesByScopeName == DupsDone => ReportedDups = DupsByScopeName

\* the duplicates reported are the symbols that stand more than once in one
\* scope entry
C25_DuplicatesByEntry == DupsDone => ReportedDups = DupsByEntry

\* a in two scope entries global of the release A: nothing is reported
C25_WitnessTwoEntries ==
    /\ DupsDone
    /\ Len(inp) = 1
    /\ inp[1].symbols = << <<sGlobal, <<sA>>>>, <<sGlobal, <<sA>>>> >>
    /\ out = <<>>

\* a, twice in the only scope entry of the release A
C25_Witness ==
    /\ DupsDone
    /\ Len(inp) = 1
    /\ inp[1].symbols = << <<sGlobal, <<sA, sA>>>> >>
    /\ out = << <<<<"A">>, << <<sGlobal, {sA}>> >> >> >>

-----------------------------------------------------------------------------
(* Map.read called up to MaxReads times on one Map *)

MaxReads == 2

\* a Map that check() refuses: the previous of its release is not defined
ReadMaps ==
    { << [name |-> nL11, previous |-> nL10,
          symbols |-> << <<sGlobal, <<sA>>>> >>] >> }

\* well-formed and malformed version scripts, and one that check() refuses
ReadFiles ==
    {readlines(MapStr(m)) : m \in OtherMaps \cup ReadMaps} \cup OtherFiles

InitRead ==
    /\ cmd = "read" /\ pc = "start"
    /\ inp = <<>> /\ out = <<>> /\ failure = ""
    /\ Untouched

\* Map.read(filename), the lines of the file being f; inp keeps the Map as
\* it was before every call and the lines read
R_Read ==
    /\ cmd = "read" /\ pc \in {"start", "read", "fatal", "guessed"}
    /\ Len(inp) < MaxReads
    /\ \E f \in ReadFiles :
         /\ file' = f
         /\ inp' = Append(inp, [map |-> cur_map, file |-> f])
         /\ ReadParsed(parse(f))
    /\ UNCHANGED <<cmd, out, args, added, removed, latest, r, release_info,
                   output>>

\* Map.guess_latest_release() after a call of read, whatever its outcome
R_Guess ==
    /\ cmd = "read" /\ pc \in {"read", "fatal"}
    /\ out' = guess_latest_release(cur_map)
    /\ pc' = "guessed"
    /\ UNCHANGED <<cmd, inp, file, cur_map, parsed, args, added, removed,
                   latest, r, release_info, output, failure>>

NextRead == R_Read \/ R_Guess

SpecRead == InitRead /\ [][NextRead]_vars

\* the i-th call of read parsed its file and check() accepted the releases
SucceededAt(i) ==
    /\ parse(inp[i].file).err = ""
    /\ check(parse(inp[i].file).releases).err = ""

\* some call of read on the Map has succeeded
ReadOnce == \E i \in 1..Len(inp) : SucceededAt(i)

\* the last call of read is over and its file was malformed
ReadParseFailed ==
    /\ cmd = "read" /\ pc \in {"read", "fatal"}
    /\ parse(file).err # ""

\* C29: a call of read whose parse fails raises and leaves the release list
\* and init of the Map as they were; init is true only on a Map on which a
\* call of read has parsed and checked its file; and guess_latest_release
\* refuses to run on a Map on which no call of read has succeeded
C29_FailedParseKeepsMap ==
    /\ ReadParseFailed =>
         /\ pc = "fatal"
         /\ cur_map.releases = inp[Len(inp)].map.releases
         /\ cur_map.init = inp[Len(inp)].map.init
    /\ (cmd = "read" /\ cur_map.init) => ReadOnce
    /\ (cmd = "read" /\ pc = "guessed" /\ ~ReadOnce) =>
         out.err = "Map not initialized"

\* a Map read with success keeps its releases when a malformed file is read
C29_Witness ==
    /\ ReadParseFailed /\ Len(inp) = 2 /\ SucceededAt(1)
    /\ cur_map.init /\ Len(cur_map.releases) = 2

\* guess_latest_release refuses a Map whose only read was refused by check()
C29_WitnessRefused ==
    /\ cmd = "read" /\ pc = "guessed" /\ Len(inp) = 1
    /\ parse(inp[1].file).err = "" /\ ~SucceededAt(1)
    /\ cur_map.releases # <<>>
    /\ out.err = "Map not initialized"

====
